---- MODULE Spec2Model ----
(***************************************************************************)
(* A model of the pozyxjs USB serial transport: the USBSerialConnection    *)
(* facade (read / write / call, the FIFO queue of data handlers, the ASCII *)
(* frame codec) on top of the COMMUSBStream duplex stream (constructor,    *)
(* line initialisation, outbound bulk transfers, inbound data events,      *)
(* teardown on device detach).                                             *)
(*                                                                         *)
(* Spec is the connection on an attached device, SpecTeardown adds the     *)
(* detach of the device and the teardown, SpecStream is the stream alone   *)
(* from its constructor to the end of its teardown, and SpecCodec applies  *)
(* the frame codec to byte sequences.                                      *)
(*                                                                         *)
(* Buffers and strings are sequences of byte values (character codes).     *)
(* JavaScript offsets are 0-based; sequences here are 1-based, so the JS   *)
(* array element q[0] is q[1] here and q[q.length-1] is q[Len(q)].         *)
(***************************************************************************)
EXTENDS Integers, Sequences, FiniteSets, TLC

VARIABLES
  isInitialized,      \* USBSerialConnection._isInitialized
  initPc,             \* progress of init(): the control transfer awaited, or its outcome
  dataHandlerQueue,   \* USBSerialConnection._dataHandlerQueue, as ids of leaf requests
  reqs,               \* the promise of every leaf read / write / call, in creation order
  ops,                \* the logical operations the caller has invoked, in order
  sent,               \* every buffer handed to this._usb.write, in order
  wdone,              \* how many of these writes have had their callback invoked
  devq,               \* frames the device has received and not yet answered
  destroyPc,          \* progress of COMMUSBStream._destroy
  listening,          \* the endpoints still carry the listeners of the constructor
  streamErrors,       \* 'error' events the stream has emitted
  faults,             \* transport faults injected so far
  stream,             \* the fields of the COMMUSBStream and the outcome of its constructor
  usbLog,             \* the calls made on the usb library, with their outcome
  attached,           \* the devices on the bus
  readBack,           \* what GET_LINE_CODING returned to init(), if it has
  received,           \* every chunk the stream emitted as 'data', with the handler it went to
  codec               \* a byte sequence going through the frame codec

vars == <<isInitialized, initPc, dataHandlerQueue, reqs, ops, sent, wdone, devq,
          destroyPc, listening, streamErrors, faults, stream, usbLog, attached,
          readBack, received, codec>>

(***************************************************************************)
(* Bounds of the model                                                     *)
(***************************************************************************)
MaxOps == 2
MaxStack == 3
MaxFaults == 1
MaxCodecLen == 3

(***************************************************************************)
(* Program constants                                                       *)
(***************************************************************************)
MAX_SERIAL_SIZE == 28
HEADER_SIZE == 5
DATA_HEADER_SIZE == 2
DATA_END_CHAR_CODE == 13
MAX_PARAMS_SIZE == 14
DATA_MARKER == 68
LIBUSB_CLASS_COMM == 2
LIBUSB_CLASS_DATA == 10
LIBUSB_TRANSFER_TYPE_BULK == 2

POZYX_LINE_CODING == [baudrate |-> 115200, stopbits |-> 0, parity |-> 0, databits |-> 8]

(***************************************************************************)
(* Inputs                                                                  *)
(***************************************************************************)
\* Registers read from; the register written to; the function register called.
Registers == {0, 240}

WriteRegisters == {21}

CallRegisters == {177}

\* Read lengths: below, at and above the frame limit, with and without a
\* remainder after the full chunks.
ReadLens == {1, MAX_SERIAL_SIZE, MAX_SERIAL_SIZE + 1, 2 * MAX_SERIAL_SIZE}

\* The reads the caller makes: every length from register 0, and one that
\* takes the chunk addresses past 0xff.
ReadArgs == {a \in Registers \X ReadLens : a[1] = 0 \/ a[2] = MAX_SERIAL_SIZE + 1}

\* Raw payload lengths of write.
WriteLens == {1, MAX_PARAMS_SIZE, MAX_PARAMS_SIZE + 1, MAX_SERIAL_SIZE + 1}

\* Raw parameter lengths of call.
ParamLens == {1, MAX_PARAMS_SIZE, MAX_PARAMS_SIZE + 1}

\* The raw payload a caller passes to write or call: n bytes.
Payload(n) == [i \in 1..n |-> (47 * i) % 256]

\* What GET_LINE_CODING may read back: the requested coding, or one that
\* differs from it in a single field.
LineCodings ==
  { POZYX_LINE_CODING,
    [POZYX_LINE_CODING EXCEPT !.baudrate = 9600],
    [POZYX_LINE_CODING EXCEPT !.stopbits = 2],
    [POZYX_LINE_CODING EXCEPT !.parity = 1],
    [POZYX_LINE_CODING EXCEPT !.databits = 7] }

\* The device the caller passes, and another one on the bus.
OwnDevice == "pozyx"

UsbDevices == {OwnDevice, "other"}

Platforms == {"linux", "win32"}

\* A CDC-ACM device as the Pozyx tag presents itself: interface 0 is the COMM
\* interface, with an interrupt IN endpoint and, among its functional
\* descriptors, the Union descriptor (5, 0x24, 0x06, 0, 1) that names
\* interface 1; interface 1 is the DATA interface with a bulk OUT and a bulk
\* IN endpoint. On Linux the kernel serial driver is bound to both.
PozyxDevice ==
  [interfaces |-> <<
     [bInterfaceClass |-> LIBUSB_CLASS_COMM, interfaceNumber |-> 0,
      extra |-> <<5, 36, 0, 16, 1, 4, 36, 2, 2, 5, 36, 6, 0, 1>>,
      endpoints |-> <<[direction |-> "in", transferType |-> 3]>>,
      kernelDriverActive |-> TRUE, claimable |-> TRUE],
     [bInterfaceClass |-> LIBUSB_CLASS_DATA, interfaceNumber |-> 1,
      extra |-> <<>>,
      endpoints |-> <<[direction |-> "out", transferType |-> LIBUSB_TRANSFER_TYPE_BULK],
                      [direction |-> "in", transferType |-> LIBUSB_TRANSFER_TYPE_BULK]>>,
      kernelDriverActive |-> TRUE, claimable |-> TRUE] >>]

WithExtra(extra) == [PozyxDevice EXCEPT !.interfaces[1].extra = extra]

WithDataEndpoints(endpoints) == [PozyxDevice EXCEPT !.interfaces[2].endpoints = endpoints]

BulkIn == [direction |-> "in", transferType |-> LIBUSB_TRANSFER_TYPE_BULK]

BulkOut == [direction |-> "out", transferType |-> LIBUSB_TRANSFER_TYPE_BULK]

\* Devices on which the constructor succeeds: either endpoint order, with
\* and without kernel drivers bound.
GoodDevices ==
  { PozyxDevice,
    WithDataEndpoints(<<BulkIn, BulkOut>>),
    [PozyxDevice EXCEPT !.interfaces[1].kernelDriverActive = FALSE],
    [PozyxDevice EXCEPT !.interfaces[2].kernelDriverActive = FALSE],
    [PozyxDevice EXCEPT !.interfaces[1].kernelDriverActive = FALSE,
                        !.interfaces[2].kernelDriverActive = FALSE] }

\* Devices on which interface resolution or validation fails: no COMM
\* interface; no Union descriptor, one for another COMM interface, one too
\* short, one that names an interface the device does not have or one that
\* is not a DATA interface; no IN endpoint on the COMM interface; a DATA
\* interface with one or three endpoints, with an endpoint that is not bulk,
\* or with two endpoints of the same direction.
UnresolvableDevices ==
  { [PozyxDevice EXCEPT !.interfaces[1].bInterfaceClass = 255],
    WithExtra(<<5, 36, 0, 16, 1, 4, 36, 2, 2>>),
    WithExtra(<<5, 36, 6, 3, 1>>),
    WithExtra(<<4, 36, 6, 0>>),
    WithExtra(<<5, 36, 6, 0, 5>>),
    WithExtra(<<5, 36, 6, 0, 0>>),
    [PozyxDevice EXCEPT !.interfaces[1].endpoints = <<>>],
    WithDataEndpoints(<<BulkOut>>),
    WithDataEndpoints(<<BulkOut, BulkIn, BulkIn>>),
    WithDataEndpoints(<<BulkOut, [direction |-> "in", transferType |-> 3]>>),
    WithDataEndpoints(<<[direction |-> "out", transferType |-> 3], BulkIn>>),
    WithDataEndpoints(<<BulkIn, BulkIn>>),
    WithDataEndpoints(<<BulkOut, BulkOut>>) }

\* Devices whose functional descriptors are malformed: an entry of length 0,
\* and a Union descriptor cut off before the byte that names the interface.
MalformedDevices ==
  { WithExtra(<<5, 36, 0, 16, 1, 0, 36, 6, 0, 1>>),
    WithExtra(<<4, 36, 2, 2, 5, 36, 6, 0>>) }

\* Devices one of whose interfaces another program has claimed.
BusyDevices ==
  { [PozyxDevice EXCEPT !.interfaces[1].claimable = FALSE],
    [PozyxDevice EXCEPT !.interfaces[2].claimable = FALSE] }

Devices == GoodDevices \cup UnresolvableDevices \cup MalformedDevices \cup BusyDevices

\* Byte sequences put through the codec: every sequence of at most one byte,
\* and the longer ones over a sample of byte values.
SampleBytes == {0, 9, 10, 15, 16, 171, 255}

ByteSeqs ==
  {<<>>} \cup {<<b>> : b \in 0..255}
         \cup UNION {[1..n -> SampleBytes] : n \in 2..MaxCodecLen}

\* The register addresses a frame can name in two hex digits.
Addresses == 0..255

\* Raw payloads of the frames built on their own: none, one byte and the
\* most a frame takes.
FramePayloads == {<<>>, Payload(1), Payload(MAX_PARAMS_SIZE)}

\* Lengths asked for in a frame: one and two decimal digits.
FrameLengths == {1, 9, 10, MAX_SERIAL_SIZE}

\* Characters of a response payload: the ends of the ranges '0'..'9',
\* 'a'..'f' and 'A'..'F', and characters next to and after them ('/', 'g',
\* 'z', 'G').
PayloadChars == {48, 57, 97, 102, 65, 70, 47, 103, 122, 71}

\* Response payloads the device may send, valid hex or not.
HexPayloads == UNION {[1..n -> PayloadChars] : n \in 0..MaxCodecLen}

\* First bytes of a response: 'D', and others.
Markers == {DATA_MARKER, 69, 100, 0}

\* What follows the payload of a response: '\r', or nothing.
Terminators == {<<DATA_END_CHAR_CODE>>, <<>>}

(***************************************************************************)
(* Buffer and string helpers                                               *)
(***************************************************************************)
\* Buffer.allocUnsafe(n): n bytes; every use below overwrites all of them.
allocUnsafe(n) == [i \in 1..n |-> 0]

\* buf.write(str, off): str copied to offset off, cut at the end of buf.
BufWrite(buf, str, off) ==
  [i \in 1..Len(buf) |-> IF i > off /\ i <= off + Len(str) THEN str[i - off] ELSE buf[i]]

\* buf.slice(from, to) with 0-based, end-exclusive offsets clamped to buf.
Slice(buf, from, to) ==
  LET t == IF to > Len(buf) THEN Len(buf) ELSE to
  IN  IF from >= t THEN <<>> ELSE SubSeq(buf, from + 1, t)

\* Mutant: upper-case digits.
DigitChar_Upper(d) == IF d < 10 THEN 48 + d ELSE 55 + d

DigitChar(d) == IF d < 10 THEN 48 + d ELSE 87 + d

RECURSIVE NumToString(_, _)
\* Number.prototype.toString(radix) of a non-negative integer.
NumToString(n, radix) ==
  IF n < radix THEN <<DigitChar(n)>>
  ELSE NumToString(n \div radix, radix) \o <<DigitChar(n % radix)>>

\* Mutant: no padding.
PadStart2_None(s) == s

\* String.prototype.padStart(2, '0')
PadStart2(s) == IF Len(s) < 2 THEN <<48>> \o s ELSE s

RECURSIVE Concat(_)
\* Buffer.concat(list)
Concat(list) == IF list = <<>> THEN <<>> ELSE Head(list) \o Concat(Tail(list))

(***************************************************************************)
(* Frame codec                                                             *)
(***************************************************************************)
\* Byte i becomes the two characters of data[i].toString(16).padStart(2, '0'),
\* written at offset 2 * i.
toBufferOfByteHexStrings(data) ==
  [j \in 1..(Len(data) * 2) |->
     PadStart2(NumToString(data[(j + 1) \div 2], 16))[((j - 1) % 2) + 1]]

\* -1 stands for the thrown 'Invalid hex character' error.
intFromHexChar(char) ==
  IF 48 <= char /\ char <= 57 THEN char - 48
  ELSE IF 97 <= char /\ char <= 122 THEN char - 97 + 10
  ELSE IF 65 <= char /\ char <= 70 THEN char - 65 + 10
  ELSE -1

\* Result of decoding: [ok, data, err]. The pairs are decoded in order and the
\* first pair that throws decides the error: an invalid character, or a value
\* above 255 refused by writeUInt8.
fromBufferOfByteHexStrings(buf) ==
  LET n == Len(buf) \div 2
      hi(k) == intFromHexChar(buf[2 * k - 1])
      lo(k) == intFromHexChar(buf[2 * k])
      bad == {k \in 1..n : hi(k) = -1 \/ lo(k) = -1 \/ hi(k) * 16 + lo(k) > 255}
      k0 == CHOOSE k \in bad : \A j \in bad : k <= j
  IN  IF bad = {}
        THEN [ok |-> TRUE, data |-> [k \in 1..n |-> hi(k) * 16 + lo(k)], err |-> ""]
      ELSE IF hi(k0) = -1 \/ lo(k0) = -1
        THEN [ok |-> FALSE, data |-> <<>>, err |-> "Invalid hex character"]
      ELSE [ok |-> FALSE, data |-> <<>>, err |-> "value out of range"]

\* msg.lastIndexOf(byte), 0-based, -1 when absent.
LastIndexOf(msg, byte) ==
  LET hits == {i \in 1..Len(msg) : msg[i] = byte}
  IN  IF hits = {} THEN -1 ELSE (CHOOSE i \in hits : \A j \in hits : j <= i) - 1

\* Mutant: the first byte is not checked.
parseData_AnyMarker(msg) ==
  LET found == LastIndexOf(msg, DATA_END_CHAR_CODE)
      end == IF found = -1 THEN Len(msg) ELSE found
  IN  fromBufferOfByteHexStrings(Slice(msg, DATA_HEADER_SIZE, end))

\* Mutant: the payload is taken from the start of the message.
parseData_FromMarker(msg) ==
  IF msg = <<>> \/ msg[1] # DATA_MARKER
    THEN [ok |-> FALSE, data |-> <<>>, err |-> "Malformed data message"]
  ELSE fromBufferOfByteHexStrings(Slice(msg, 0, Len(msg)))

parseData(msg) ==
  IF msg = <<>> THEN [ok |-> FALSE, data |-> <<>>, err |-> "out of range read"]
  ELSE IF msg[1] # DATA_MARKER THEN [ok |-> FALSE, data |-> <<>>, err |-> "Malformed data message"]
  ELSE LET found == LastIndexOf(msg, DATA_END_CHAR_CODE)
           end == IF found = -1 THEN Len(msg) ELSE found
       IN  fromBufferOfByteHexStrings(Slice(msg, DATA_HEADER_SIZE, end))

ReadFrame(register, length) ==
  LET lenString == NumToString(length, 10)
      b0 == allocUnsafe(HEADER_SIZE + Len(lenString) + 1)
      b1 == BufWrite(b0, <<82, 44>>, 0)
      b2 == BufWrite(b1, PadStart2(NumToString(register, 16)), 2)
      b3 == BufWrite(b2, <<44>>, 4)
      b4 == BufWrite(b3, lenString, 5)
  IN  BufWrite(b4, <<13>>, 5 + Len(lenString))

\* data is the buffer copied into the frame (already hex-encoded by write).
WriteFrame(register, data) ==
  LET b0 == allocUnsafe(HEADER_SIZE + Len(data) + 1)
      b1 == BufWrite(b0, <<87, 44>>, 0)
      b2 == BufWrite(b1, PadStart2(NumToString(register, 16)), 2)
      b3 == BufWrite(b2, <<44>>, 4)
      b4 == BufWrite(b3, data, 5)
  IN  BufWrite(b4, <<13>>, 5 + Len(data))

\* params is the hex-encoded parameter buffer.
CallFrame(register, params, length) ==
  LET lenString == NumToString(length, 10)
      b0 == allocUnsafe(HEADER_SIZE + Len(params) + Len(lenString) + 2)
      b1 == BufWrite(b0, <<70, 44>>, 0)
      b2 == BufWrite(b1, PadStart2(NumToString(register, 16)), 2)
      b3 == BufWrite(b2, <<44>>, 4)
      b4 == BufWrite(b3, params, 5)
      b5 == BufWrite(b4, <<44>>, 5 + Len(params))
      b6 == BufWrite(b5, lenString, 6 + Len(params))
  IN  BufWrite(b6, <<13>>, 6 + Len(params) + Len(lenString))

(***************************************************************************)
(* The device: it answers the frames it received, one reply per frame, in  *)
(* the order it received them.                                             *)
(***************************************************************************)
HexPair(b) == <<DigitChar(b \div 16), DigitChar(b % 16)>>

\* The bytes the device returns for leaf request q: as many as q asked for.
DeviceData(q) == [i \in 1..reqs[q].length |-> (16 * q + i) % 256]

\* The reply frame for leaf request q: 'D,' hex-pairs '\r'.
DeviceReply(q) ==
  <<DATA_MARKER, 44>> \o Concat([i \in 1..reqs[q].length |-> HexPair(DeviceData(q)[i])]) \o <<13>>

\* A reply that does not start with the data marker: 'E' in place of 'D'.
BadReply(q) == [DeviceReply(q) EXCEPT ![1] = 69]

(***************************************************************************)
(* USBSerialConnection: the pending-handler queue                          *)
(***************************************************************************)
\* Mutant: Array.prototype.push taken for unshift, the new handler becomes
\* the last element.
Unshift_Push(q, h) == q \o <<h>>

\* Array.prototype.unshift: the new handler becomes element 0.
Unshift(q, h) == <<h>> \o q

\* Mutant: Array.prototype.shift taken for pop, the newest handler is removed.
PopIndex_Shift(q) == 1

\* Array.prototype.pop: the handler removed is the last element.
PopIndex(q) == Len(q)

\* Array.prototype.indexOf, 1-based, 0 when absent.
IndexOf(q, h) ==
  IF \E i \in 1..Len(q) : q[i] = h THEN CHOOSE i \in 1..Len(q) : q[i] = h /\ \A j \in 1..(i - 1) : q[j] # h
  ELSE 0

\* Array.prototype.splice(i - 1, 1)
RemoveAt(q, i) == SubSeq(q, 1, i - 1) \o SubSeq(q, i + 1, Len(q))

\* Mutant: the write callback rejects without removing the handler.
RemoveHandler_Keep(q, h) == q

\* The write callback of read / call on error: the handler is located and removed.
RemoveHandler(q, h) == IF IndexOf(q, h) # 0 THEN RemoveAt(q, IndexOf(q, h)) ELSE q

\* Mutant: the initialization guard is missing.
NotInitialized_NoGuard == FALSE

\* if (! this._isInitialized) throw ...
NotInitialized == ~isInitialized

NewReq(op, kind, register, length, data, state, err) ==
  [op |-> op, kind |-> kind, register |-> register, length |-> length, data |-> data,
   state |-> state, value |-> <<>>, err |-> err]

(***************************************************************************)
(* read / write / call. Each runs synchronously up to the point where its  *)
(* frames have been handed to the stream; st is the connection state it    *)
(* threads through: [reqs, queue, sent, overflow].                         *)
(***************************************************************************)
\* Mutant: the frame is submitted without a handler in the queue.
LeafRead_NoHandler(st, op, register, length) ==
  LET id == Len(st.reqs) + 1
  IN  IF NotInitialized
        THEN [st EXCEPT !.reqs = Append(@, NewReq(op, "R", register, length, <<>>, "rejected",
                                                  "Cannot read until the connection has been initialized"))]
      ELSE [st EXCEPT !.reqs = Append(@, NewReq(op, "R", register, length, <<>>, "pending", "")),
                      !.sent = Append(@, [req |-> id, buf |-> ReadFrame(register, length)])]

\* The promise executor of read (one frame).
LeafRead(st, op, register, length) ==
  LET id == Len(st.reqs) + 1
  IN  IF NotInitialized
        THEN [st EXCEPT !.reqs = Append(@, NewReq(op, "R", register, length, <<>>, "rejected",
                                                  "Cannot read until the connection has been initialized"))]
      ELSE [st EXCEPT !.reqs = Append(@, NewReq(op, "R", register, length, <<>>, "pending", "")),
                      !.queue = Unshift(@, id),
                      !.sent = Append(@, [req |-> id, buf |-> ReadFrame(register, length)])]

RECURSIVE ReadCall(_, _, _, _)
RECURSIVE ReadLoop(_, _, _, _, _)
RECURSIVE ReadLoop_Descending(_, _, _, _, _)
\* Mutant: the loop walks the full chunks from the highest address down.
ReadLoop_Descending(st, op, register, i, nMsgs) ==
  IF i >= nMsgs THEN st
  ELSE ReadLoop_Descending(ReadCall(st, op, register + (nMsgs - 1 - i) * MAX_SERIAL_SIZE, MAX_SERIAL_SIZE),
                           op, register, i + 1, nMsgs)

\* Mutant: no request is made for an empty remainder.
ReadCall_NoEmptyChunk(st, op, register, length) ==
  IF length > MAX_SERIAL_SIZE
    THEN LET nMsgs == length \div MAX_SERIAL_SIZE
             full == ReadLoop(st, op, register, 0, nMsgs)
         IN  IF length = nMsgs * MAX_SERIAL_SIZE THEN full
             ELSE LeafRead(full, op, register + nMsgs * MAX_SERIAL_SIZE,
                           length - nMsgs * MAX_SERIAL_SIZE)
  ELSE LeafRead(st, op, register, length)

\* read(register, length)
ReadCall(st, op, register, length) ==
  IF length > MAX_SERIAL_SIZE
    THEN LET nMsgs == length \div MAX_SERIAL_SIZE
         IN  ReadCall(ReadLoop(st, op, register, 0, nMsgs), op,
                      register + nMsgs * MAX_SERIAL_SIZE, length - nMsgs * MAX_SERIAL_SIZE)
  ELSE LeafRead(st, op, register, length)

\* for (let i = 0; i < nMsgs; i++) proms.push(this.read(...))
ReadLoop(st, op, register, i, nMsgs) ==
  IF i >= nMsgs THEN st
  ELSE ReadLoop(ReadCall(st, op, register + i * MAX_SERIAL_SIZE, MAX_SERIAL_SIZE),
                op, register, i + 1, nMsgs)

\* Mutant: write queues a handler like read does.
LeafWrite_Queued(st, op, register, data) ==
  LET id == Len(st.reqs) + 1
  IN  IF NotInitialized
        THEN [st EXCEPT !.reqs = Append(@, NewReq(op, "W", register, Len(data), data, "rejected",
                                                  "Cannot write until the connection has been initialized"))]
      ELSE [st EXCEPT !.reqs = Append(@, NewReq(op, "W", register, Len(data), data, "pending", "")),
                      !.queue = Unshift(@, id),
                      !.sent = Append(@, [req |-> id, buf |-> WriteFrame(register, data)])]

\* The promise executor of write (one frame); data is what write copies into it.
LeafWrite(st, op, register, data) ==
  LET id == Len(st.reqs) + 1
  IN  IF NotInitialized
        THEN [st EXCEPT !.reqs = Append(@, NewReq(op, "W", register, Len(data), data, "rejected",
                                                  "Cannot write until the connection has been initialized"))]
      ELSE [st EXCEPT !.reqs = Append(@, NewReq(op, "W", register, Len(data), data, "pending", "")),
                      !.sent = Append(@, [req |-> id, buf |-> WriteFrame(register, data)])]

RECURSIVE WriteCall(_, _, _, _, _)
RECURSIVE WriteLoop(_, _, _, _, _, _, _)
\* write(register, data); depth is the number of nested write calls on the
\* call stack, and a call deeper than MaxStack overflows the stack.
WriteCall(st, op, register, data, depth) ==
  IF st.overflow THEN st
  ELSE IF depth > MaxStack THEN [st EXCEPT !.overflow = TRUE]
  ELSE LET hex == toBufferOfByteHexStrings(data)
           length == Len(hex)
       IN  IF length > MAX_SERIAL_SIZE
             THEN LET nMsgs == length \div MAX_SERIAL_SIZE
                  IN  WriteCall(WriteLoop(st, op, register, hex, 0, nMsgs, depth), op,
                                register + nMsgs * MAX_SERIAL_SIZE,
                                Slice(hex, nMsgs * MAX_SERIAL_SIZE, length), depth + 1)
           ELSE LeafWrite(st, op, register, hex)

\* for (let i = 0; i < nMsgs; i++) proms.push(this.write(..., data.slice(...)))
WriteLoop(st, op, register, hex, i, nMsgs, depth) ==
  IF i >= nMsgs \/ st.overflow THEN st
  ELSE WriteLoop(WriteCall(st, op, register + i * MAX_SERIAL_SIZE,
                           Slice(hex, i * MAX_SERIAL_SIZE, (i + 1) * MAX_SERIAL_SIZE), depth + 1),
                 op, register, hex, i + 1, nMsgs, depth)

\* Mutant: the ceiling is applied to the hex-encoded parameters.
ParamsTooLong_Hex(params) == Len(toBufferOfByteHexStrings(params)) > MAX_PARAMS_SIZE

\* if (params.length > 14) throw ...
ParamsTooLong(params) == Len(params) > MAX_PARAMS_SIZE

\* The promise executor of call.
LeafCall(st, op, register, params, length) ==
  LET id == Len(st.reqs) + 1
      hex == toBufferOfByteHexStrings(params)
  IN  IF NotInitialized
        THEN [st EXCEPT !.reqs = Append(@, NewReq(op, "F", register, length, <<>>, "rejected",
                                                  "Cannot call a function until the connection has been initialized"))]
      ELSE IF ParamsTooLong(params)
        THEN [st EXCEPT !.reqs = Append(@, NewReq(op, "F", register, length, <<>>, "rejected",
                                                  "functions params cannot exceed 14 bytes in length"))]
      ELSE [st EXCEPT !.reqs = Append(@, NewReq(op, "F", register, length, hex, "pending", "")),
                      !.queue = Unshift(@, id),
                      !.sent = Append(@, [req |-> id, buf |-> CallFrame(register, hex, length)])]

Conn == [reqs |-> reqs, queue |-> dataHandlerQueue, sent |-> sent, overflow |-> FALSE]

\* The caller's record of one invocation: its arguments, the leaf promises
\* it created (first .. first + n - 1), whether it threw a stack overflow, and
\* the outcome of init() when it was invoked ("pending" while it has none).
NewOp(kind, register, length, data, st) ==
  [kind |-> kind, register |-> register, length |-> length, data |-> data,
   first |-> Len(reqs) + 1, n |-> Len(st.reqs) - Len(reqs), overflow |-> st.overflow,
   initAt |-> IF initPc \in {"resolved", "rejected"} THEN initPc ELSE "pending"]

Invoke(kind, register, length, data, st0) ==
  /\ Len(ops) < MaxOps
  /\ destroyPc = "none"
  /\ LET st == st0
     IN  /\ ops' = Append(ops, NewOp(kind, register, length, data, st))
         /\ reqs' = st.reqs
         /\ dataHandlerQueue' = st.queue
         /\ sent' = st.sent
  /\ UNCHANGED <<isInitialized, initPc, wdone, devq, destroyPc, listening, streamErrors, faults,
                 stream, usbLog, attached, readBack, received, codec>>

Read(register, length) ==
  Invoke("read", register, length, <<>>, ReadCall(Conn, Len(ops) + 1, register, length))

Write(register, data) ==
  Invoke("write", register, Len(data), data, WriteCall(Conn, Len(ops) + 1, register, data, 1))

Call(register, params, length) ==
  Invoke("call", register, length, params, LeafCall(Conn, Len(ops) + 1, register, params, length))

\* Promise.all over the leaf promises of operation o (a single leaf is its
\* own promise): rejected as soon as one is, fulfilled when all are.
Kids(o) == [i \in 1..ops[o].n |-> ops[o].first + i - 1]

PromiseAllState(states) ==
  IF \E i \in 1..Len(states) : states[i] = "rejected" THEN "rejected"
  ELSE IF \A i \in 1..Len(states) : states[i] = "fulfilled" THEN "fulfilled"
  ELSE "pending"

OpState(o) ==
  IF ops[o].overflow THEN "thrown"
  ELSE PromiseAllState([i \in 1..ops[o].n |-> reqs[Kids(o)[i]].state])

\* Mutant: the values are concatenated from the last promise to the first.
OpValue_Reversed(o) == Concat([i \in 1..ops[o].n |-> reqs[Kids(o)[ops[o].n + 1 - i]].value])

\* .then(Buffer.concat): the values in the order of the promise array.
OpValue(o) == Concat([i \in 1..ops[o].n |-> reqs[Kids(o)[i]].value])

(***************************************************************************)
(* COMMUSBStream: outbound transfers, inbound data, endpoint errors        *)
(***************************************************************************)
Settle(q, res) ==
  [reqs EXCEPT ![q] = IF res.ok THEN [@ EXCEPT !.state = "fulfilled", !.value = res.data]
                      ELSE [@ EXCEPT !.state = "rejected", !.err = res.err]]

\* The callback of this._usb.write for the oldest write not yet completed.
\* The stream hands one buffer at a time to the OUT endpoint, so callbacks
\* come in submission order. A frame whose transfer succeeded reached the
\* device.
TransferComplete(err) ==
  /\ wdone < Len(sent)
  /\ IF err THEN faults < MaxFaults \/ destroyPc # "none" ELSE destroyPc = "none"
  /\ LET q == sent[wdone + 1].req
     IN  /\ wdone' = wdone + 1
         /\ faults' = IF err /\ destroyPc = "none" THEN faults + 1 ELSE faults
         /\ IF reqs[q].kind = "W"
              THEN /\ reqs' = Settle(q, [ok |-> ~err, data |-> <<>>, err |-> "transfer error"])
                   /\ UNCHANGED <<dataHandlerQueue, devq>>
            ELSE IF err
              THEN /\ dataHandlerQueue' = RemoveHandler(dataHandlerQueue, q)
                   /\ reqs' = IF reqs[q].state = "pending"
                                THEN Settle(q, [ok |-> FALSE, data |-> <<>>, err |-> "transfer error"])
                              ELSE reqs
                   /\ UNCHANGED devq
            ELSE /\ devq' = Append(devq, q)
                 /\ UNCHANGED <<dataHandlerQueue, reqs>>
  /\ UNCHANGED <<isInitialized, initPc, ops, sent, destroyPc, listening, streamErrors,
                 stream, usbLog, attached, readBack, received, codec>>

\* Mutant: without the test of the queue's first element, a chunk that finds
\* the queue empty goes to the handler of the newest request.
Deliver_LastHandler(chunk) ==
  LET h == IF dataHandlerQueue # <<>> THEN dataHandlerQueue[PopIndex(dataHandlerQueue)]
           ELSE Len(reqs)
  IN  /\ reqs' = IF h = 0 THEN reqs ELSE Settle(h, parseData(chunk))
      /\ dataHandlerQueue' = RemoveAt(dataHandlerQueue, PopIndex(dataHandlerQueue))
      /\ received' = Append(received, [chunk |-> chunk, to |-> h])

\* this._usb.on('data', chunk => ...): the chunk goes to the handler popped
\* from the queue, whose promise continues with parseData; with an empty
\* queue nothing is done with it.
Deliver(chunk) ==
  IF dataHandlerQueue # <<>>
    THEN LET h == dataHandlerQueue[PopIndex(dataHandlerQueue)]
         IN  /\ reqs' = Settle(h, parseData(chunk))
             /\ dataHandlerQueue' = RemoveAt(dataHandlerQueue, PopIndex(dataHandlerQueue))
             /\ received' = Append(received, [chunk |-> chunk, to |-> h])
  ELSE /\ received' = Append(received, [chunk |-> chunk, to |-> 0])
       /\ UNCHANGED <<reqs, dataHandlerQueue>>

\* The device answers the oldest frame it holds and the stream emits the
\* reply as one 'data' chunk.
DataArrives ==
  /\ devq # <<>>
  /\ destroyPc = "none"
  /\ devq' = Tail(devq)
  /\ Deliver(DeviceReply(Head(devq)))
  /\ UNCHANGED <<isInitialized, initPc, ops, sent, wdone, destroyPc, listening, streamErrors, faults,
                 stream, usbLog, attached, readBack, codec>>

\* Chunks that answer no frame: 'D,01\r' and 'E\r'.
StrayChunks == {<<DATA_MARKER, 44, 48, 49, DATA_END_CHAR_CODE>>, <<69, DATA_END_CHAR_CODE>>}

\* The stream emits a 'data' chunk that is the reply to no frame (the rest
\* of a reply the endpoint delivered in two transfers, or data the device
\* sent unasked).
StrayData(chunk) ==
  /\ destroyPc = "none"
  /\ faults < MaxFaults
  /\ faults' = faults + 1
  /\ Deliver(chunk)
  /\ UNCHANGED <<isInitialized, initPc, ops, sent, wdone, devq, destroyPc, listening, streamErrors,
                 stream, usbLog, attached, readBack, codec>>

\* The device answers the oldest frame it holds with a chunk that does not
\* start with 'D'.
BadDataArrives ==
  /\ devq # <<>>
  /\ destroyPc = "none"
  /\ faults < MaxFaults
  /\ faults' = faults + 1
  /\ devq' = Tail(devq)
  /\ Deliver(BadReply(Head(devq)))
  /\ UNCHANGED <<isInitialized, initPc, ops, sent, wdone, destroyPc, listening, streamErrors,
                 stream, usbLog, attached, readBack, codec>>

\* this._inEndpoint.on('error', err => this.emit('error', err)): a failed or
\* timed-out inbound transfer becomes an 'error' event of the stream, for
\* which the connection registers no listener.
InEndpointError ==
  /\ listening
  /\ faults < MaxFaults
  /\ faults' = faults + 1
  /\ streamErrors' = streamErrors + 1
  /\ UNCHANGED <<isInitialized, initPc, dataHandlerQueue, reqs, ops, sent, wdone, devq, destroyPc, listening,
                 stream, usbLog, attached, readBack, received, codec>>

(***************************************************************************)
(* init                                                                    *)
(***************************************************************************)
\* Mutant: only the baud rate is compared.
CodingMatches_BaudOnly(coding, lineCoding) == coding.baudrate = lineCoding.baudrate

\* The read-back check of COMMUSBStream.init
CodingMatches(coding, lineCoding) ==
  /\ coding.baudrate = lineCoding.baudrate
  /\ coding.stopbits = lineCoding.stopbits
  /\ coding.parity = lineCoding.parity
  /\ coding.databits = lineCoding.databits

\* Buffer.writeInt32LE(n) and Buffer.writeInt8(n)
Int32LE(n) == <<n % 256, (n \div 256) % 256, (n \div 65536) % 256, (n \div 16777216) % 256>>

Int8(n) == n % 256

\* device.controlTransfer(requestType, request, value, index, dataOrLength),
\* as an entry of usbLog: data is the buffer sent, length the number of
\* bytes asked for, state "pending" until the callback runs, then "done" or
\* "failed".
ControlRequest(direction, request, value, index, data, length) ==
  [call |-> "controlTransfer", direction |-> direction, request |-> request, value |-> value,
   index |-> index, data |-> data, length |-> length, state |-> "pending"]

\* The callback of the control transfer outstanding runs.
Complete(log, state) ==
  [i \in 1..Len(log) |->
     IF log[i].call = "controlTransfer" /\ log[i].state = "pending"
       THEN [log[i] EXCEPT !.state = state]
     ELSE log[i]]

\* Mutant: the line is activated with value 0 and deactivated with 3.
setLineState_Inverted(s, active) ==
  ControlRequest("out", "SET_CONTROL_LINE_STATE", IF active THEN 0 ELSE 3,
                 s.descriptor.interfaces[s.commIface + 1].interfaceNumber, <<>>, 0)

\* setLineState(active)
setLineState(s, active) ==
  ControlRequest("out", "SET_CONTROL_LINE_STATE", IF active THEN 3 ELSE 0,
                 s.descriptor.interfaces[s.commIface + 1].interfaceNumber, <<>>, 0)

\* setLineCoding(lineCoding)
setLineCoding(s, lineCoding) ==
  ControlRequest("out", "SET_LINE_CODING", 0, s.descriptor.interfaces[s.commIface + 1].interfaceNumber,
                 Int32LE(lineCoding.baudrate)
                   \o <<Int8(lineCoding.stopbits), Int8(lineCoding.parity), Int8(lineCoding.databits)>>,
                 0)

\* getLineCoding()
getLineCoding(s) ==
  ControlRequest("in", "GET_LINE_CODING", 0, s.descriptor.interfaces[s.commIface + 1].interfaceNumber,
                 <<>>, 7)

\* init(): the first control transfer is issued.
InitCall ==
  /\ initPc = "idle"
  /\ initPc' = "setLineCoding"
  /\ usbLog' = Append(usbLog, setLineCoding(stream, POZYX_LINE_CODING))
  /\ UNCHANGED <<isInitialized, dataHandlerQueue, reqs, ops, sent, wdone, devq, destroyPc, listening, streamErrors, faults,
                 stream, attached, readBack, received, codec>>

\* A control transfer of init fails: init rejects.
InitTransferFails ==
  /\ initPc \in {"setLineCoding", "setLineState", "getLineCoding"}
  /\ faults < MaxFaults \/ destroyPc # "none"
  /\ faults' = IF destroyPc = "none" THEN faults + 1 ELSE faults
  /\ initPc' = "rejected"
  /\ usbLog' = Complete(usbLog, "failed")
  /\ UNCHANGED <<isInitialized, dataHandlerQueue, reqs, ops, sent, wdone, devq, destroyPc, listening, streamErrors,
                 stream, attached, readBack, received, codec>>

\* SET_LINE_CODING, then SET_CONTROL_LINE_STATE, complete and the next
\* transfer of the chain is issued.
InitTransferDone ==
  /\ initPc \in {"setLineCoding", "setLineState"}
  /\ destroyPc = "none"
  /\ initPc' = IF initPc = "setLineCoding" THEN "setLineState" ELSE "getLineCoding"
  /\ usbLog' = Append(Complete(usbLog, "done"),
                      IF initPc = "setLineCoding" THEN setLineState(stream, TRUE)
                      ELSE getLineCoding(stream))
  /\ UNCHANGED <<isInitialized, dataHandlerQueue, reqs, ops, sent, wdone, devq, destroyPc, listening, streamErrors, faults,
                 stream, attached, readBack, received, codec>>

\* GET_LINE_CODING completes with the coding read back.
InitReadBack(coding) ==
  /\ initPc = "getLineCoding"
  /\ destroyPc = "none"
  /\ readBack' = <<coding>>
  /\ usbLog' = Complete(usbLog, "done")
  /\ IF CodingMatches(coding, POZYX_LINE_CODING)
       THEN /\ initPc' = "resolved"
            /\ isInitialized' = TRUE
            /\ UNCHANGED faults
     ELSE /\ faults < MaxFaults
          /\ faults' = faults + 1
          /\ initPc' = "rejected"
          /\ UNCHANGED isInitialized
  /\ UNCHANGED <<dataHandlerQueue, reqs, ops, sent, wdone, devq, destroyPc, listening, streamErrors,
                 stream, attached, received, codec>>

(***************************************************************************)
(* The frame codec applied to a byte sequence                              *)
(***************************************************************************)
NoCodec ==
  [stage |-> "idle", fn |-> "", register |-> 0, length |-> 0,
   raw |-> <<>>, hex |-> <<>>, msg |-> <<>>,
   out |-> [ok |-> TRUE, data |-> <<>>, err |-> ""]]

CodecUnchanged ==
  UNCHANGED <<isInitialized, initPc, dataHandlerQueue, reqs, ops, sent, wdone, devq, destroyPc,
              listening, streamErrors, faults, stream, usbLog, attached, readBack, received>>

\* toBufferOfByteHexStrings(raw)
Encode ==
  /\ codec.stage = "raw"
  /\ codec' = [codec EXCEPT !.stage = "hex", !.hex = toBufferOfByteHexStrings(codec.raw)]
  /\ CodecUnchanged

\* fromBufferOfByteHexStrings(hex)
Decode ==
  /\ codec.stage = "hex"
  /\ codec' = [codec EXCEPT !.stage = "decoded", !.out = fromBufferOfByteHexStrings(codec.hex)]
  /\ CodecUnchanged

\* fromBufferOfByteHexStrings applied to the payload of a response.
DecodePayload ==
  /\ codec.stage = "payload"
  /\ codec' = [codec EXCEPT !.stage = "payloadDecoded",
                            !.out = fromBufferOfByteHexStrings(codec.hex)]
  /\ CodecUnchanged

\* The device frames the bytes as a response: a marker byte, ',', the hex
\* pairs and a terminator (possibly none).
Frame(marker, terminator) ==
  /\ codec.stage = "raw"
  /\ codec' = [codec EXCEPT !.stage = "msg",
                            !.msg = <<marker, 44>>
                                      \o Concat([i \in 1..Len(codec.raw) |-> HexPair(codec.raw[i])])
                                      \o terminator]
  /\ CodecUnchanged

\* parseData(msg)
Parse ==
  /\ codec.stage = "msg"
  /\ codec' = [codec EXCEPT !.stage = "parsed", !.out = parseData(codec.msg)]
  /\ CodecUnchanged

\* The frame read(register, length) submits.
ReadRequest(register, length) ==
  /\ codec.stage = "raw"
  /\ codec.raw = <<>>
  /\ codec' = [codec EXCEPT !.stage = "frame", !.fn = "read", !.register = register,
                            !.length = length, !.msg = ReadFrame(register, length)]
  /\ CodecUnchanged

\* The frame write(register, raw) submits.
WriteRequest(register) ==
  /\ codec.stage = "raw"
  /\ codec.raw \in FramePayloads
  /\ codec' = [codec EXCEPT !.stage = "frame", !.fn = "write", !.register = register,
                            !.hex = toBufferOfByteHexStrings(codec.raw),
                            !.msg = WriteFrame(register, toBufferOfByteHexStrings(codec.raw))]
  /\ CodecUnchanged

\* The frame call(register, raw, length) submits.
CallRequest(register, length) ==
  /\ codec.stage = "raw"
  /\ codec.raw \in FramePayloads
  /\ codec' = [codec EXCEPT !.stage = "frame", !.fn = "call", !.register = register,
                            !.length = length,
                            !.hex = toBufferOfByteHexStrings(codec.raw),
                            !.msg = CallFrame(register, toBufferOfByteHexStrings(codec.raw), length)]
  /\ CodecUnchanged

(***************************************************************************)
(* COMMUSBStream: the constructor                                          *)
(*                                                                         *)
(* A device is its list of interfaces; interfaces and endpoints are        *)
(* referred to by their 0-based index, as in the code, and -1 stands for   *)
(* 'none'. usbLog records every call made on the usb library with its      *)
(* outcome, a synchronous call when it is made and an asynchronous one     *)
(* when its callback runs.                                                 *)
(***************************************************************************)
UsbCall(call, ok) == [call |-> call, ok |-> ok]

\* buf[p] of a JavaScript array or Buffer; -2 stands for undefined.
At(buf, p) == IF p >= 0 /\ p < Len(buf) THEN buf[p + 1] ELSE -2

\* device.interfaces[id]
Iface(device, id) == device.interfaces[id + 1]

\* device.interfaces.find(i => i.descriptor.bInterfaceClass === LIBUSB_CLASS_COMM)
getCOMMIface(device) ==
  LET hits == {i \in 1..Len(device.interfaces) :
                 device.interfaces[i].bInterfaceClass = LIBUSB_CLASS_COMM}
  IN  IF hits = {} THEN -1 ELSE (CHOOSE i \in hits : \A j \in hits : i <= j) - 1

RECURSIVE DescriptorWalk(_, _, _, _, _)
\* The while loop of getDATAIface. A length byte that is undefined makes
\* length NaN and ends the loop; a length byte of 0 leaves length and
\* pointer as they are, and the loop never ends.
DescriptorWalk(extra, number, length, pointer, dataIfaceId) ==
  IF length <= 0 THEN [hang |-> FALSE, dataIfaceId |-> dataIfaceId]
  ELSE LET descriptorLength == At(extra, pointer)
           id == IF /\ descriptorLength >= 5
                    /\ At(extra, pointer + 1) = 36
                    /\ At(extra, pointer + 2) = 6
                    /\ At(extra, pointer + 3) = number
                   THEN At(extra, pointer + 4)
                 ELSE dataIfaceId
       IN  IF descriptorLength = -2 THEN [hang |-> FALSE, dataIfaceId |-> id]
           ELSE IF descriptorLength = 0 THEN [hang |-> TRUE, dataIfaceId |-> id]
           ELSE DescriptorWalk(extra, number, length - descriptorLength,
                               pointer + descriptorLength, id)

\* Result: [kind, id] with kind "iface" (interface id), "undefined" (nothing
\* returned), "hang" (the loop does not end) or "TypeError" (the id read is
\* undefined and device.interfaces[undefined].descriptor throws).
getDATAIface(device, commIface) ==
  LET extra == Iface(device, commIface).extra
      walk == DescriptorWalk(extra, Iface(device, commIface).interfaceNumber, Len(extra), 0, -1)
      dataIfaceId == walk.dataIfaceId
  IN  IF walk.hang THEN [kind |-> "hang", id |-> -1]
      ELSE IF dataIfaceId = -1 THEN [kind |-> "undefined", id |-> -1]
      ELSE IF dataIfaceId = -2 THEN [kind |-> "TypeError", id |-> -1]
      ELSE IF Len(device.interfaces) - 1 < dataIfaceId THEN [kind |-> "undefined", id |-> -1]
      ELSE IF Iface(device, dataIfaceId).bInterfaceClass # LIBUSB_CLASS_DATA
        THEN [kind |-> "undefined", id |-> -1]
      ELSE [kind |-> "iface", id |-> dataIfaceId]

\* Mutant: the DATA interface is not validated.
validateDataIface_Any(dataIface) == TRUE

validateDataIface(dataIface) ==
  /\ dataIface.bInterfaceClass = LIBUSB_CLASS_DATA
  /\ Len(dataIface.endpoints) = 2
  /\ dataIface.endpoints[1].transferType = LIBUSB_TRANSFER_TYPE_BULK
  /\ dataIface.endpoints[2].transferType = LIBUSB_TRANSFER_TYPE_BULK
  /\ dataIface.endpoints[2].direction # dataIface.endpoints[1].direction

\* this._commIface.endpoints.find(e => e.direction == 'in')
FindInEndpoint(iface) ==
  LET hits == {i \in 1..Len(iface.endpoints) : iface.endpoints[i].direction = "in"}
  IN  IF hits = {} THEN -1 ELSE (CHOOSE i \in hits : \A j \in hits : i <= j) - 1

\* Mutant: the first endpoint is taken for the IN endpoint whatever its direction.
InEndpointIndex_First(dataIface) == 0

\* if (this._dataIface.endpoints[0].direction === 'in') [in, out] = endpoints
\* else [out, in] = endpoints
InEndpointIndex(dataIface) == IF dataIface.endpoints[1].direction = "in" THEN 0 ELSE 1

\* The fields of a stream whose constructor has not run.
NoStream ==
  [state |-> "none", error |-> "", platform |-> "", device |-> "", descriptor |-> <<>>,
   commIface |-> -1, dataIface |-> -1, controlEndpoint |-> -1, inEndpoint |-> -1,
   outEndpoint |-> -1, reattachCOMMDriver |-> FALSE, reattachDATADriver |-> FALSE,
   isPolling |-> FALSE, inPollActive |-> FALSE, inFlight |-> 0, consumer |-> "idle",
   event |-> ""]

\* The constructor run on a device (an object, with its descriptor) on a
\* platform: [stream, log], the fields of the stream and the library calls
\* made, in order. state is "ok", "thrown" (error is the message) or "hang".
COMMUSBStream(device, descriptor, platform) ==
  LET s0 == [NoStream EXCEPT !.state = "thrown", !.platform = platform,
                             !.device = device, !.descriptor = descriptor]
      comm == getCOMMIface(descriptor)
      found == getDATAIface(descriptor, comm)
      commI == Iface(descriptor, comm)
      dataI == Iface(descriptor, found.id)
      control == FindInEndpoint(commI)
      inIdx == InEndpointIndex(dataI)
      detachComm == platform # "win32" /\ commI.kernelDriverActive
      detachData == platform # "win32" /\ dataI.kernelDriverActive
      log1 == IF detachComm THEN <<UsbCall("comm.detachKernelDriver", TRUE)>> ELSE <<>>
      log2 == log1 \o (IF detachData THEN <<UsbCall("data.detachKernelDriver", TRUE)>> ELSE <<>>)
      s1 == [s0 EXCEPT !.commIface = comm, !.dataIface = found.id, !.controlEndpoint = control,
                       !.inEndpoint = inIdx, !.outEndpoint = 1 - inIdx,
                       !.reattachCOMMDriver = detachComm, !.reattachDATADriver = detachData]
  IN  IF comm = -1
        THEN [stream |-> [s0 EXCEPT !.error = "Unable to find COMM interface"], log |-> <<>>]
      ELSE IF found.kind = "hang"
        THEN [stream |-> [s0 EXCEPT !.state = "hang", !.commIface = comm], log |-> <<>>]
      ELSE IF found.kind = "TypeError"
        THEN [stream |-> [s0 EXCEPT !.error = "TypeError", !.commIface = comm], log |-> <<>>]
      ELSE IF found.kind = "undefined"
        THEN [stream |-> [s0 EXCEPT !.error = "Unable to find DATA interface", !.commIface = comm],
              log |-> <<>>]
      ELSE IF ~validateDataIface(dataI)
        THEN [stream |-> [s0 EXCEPT !.error = "Found invalid DATA interface", !.commIface = comm,
                                    !.dataIface = found.id],
              log |-> <<>>]
      ELSE IF control = -1
        THEN [stream |-> [s0 EXCEPT !.error = "Unable to find InEndpoint for the COMM interface",
                                    !.commIface = comm, !.dataIface = found.id],
              log |-> <<>>]
      ELSE IF ~commI.claimable
        THEN [stream |-> [s1 EXCEPT !.error = "LIBUSB_ERROR_BUSY"],
              log |-> log2 \o <<UsbCall("comm.claim", FALSE)>>]
      ELSE IF ~dataI.claimable
        THEN [stream |-> [s1 EXCEPT !.error = "LIBUSB_ERROR_BUSY"],
              log |-> log2 \o <<UsbCall("comm.claim", TRUE), UsbCall("data.claim", FALSE)>>]
      ELSE [stream |-> [s1 EXCEPT !.state = "ok"],
            log |-> log2 \o <<UsbCall("comm.claim", TRUE), UsbCall("data.claim", TRUE),
                              UsbCall("control.startPoll", TRUE)>>]

\* new COMMUSBStream(device)
Construct(descriptor, platform) ==
  /\ stream.state = "none"
  /\ LET r == COMMUSBStream(OwnDevice, descriptor, platform)
     IN  /\ stream' = r.stream
         /\ usbLog' = r.log
         /\ listening' = (r.stream.state = "ok")
  /\ UNCHANGED <<isInitialized, initPc, dataHandlerQueue, reqs, ops, sent, wdone, devq,
                 destroyPc, streamErrors, faults, attached, readBack, received, codec>>

(***************************************************************************)
(* Polling of the data-IN endpoint. Besides _isPolling the stream record   *)
(* carries the state of the endpoint (inPollActive; inFlight, the          *)
(* transfers completed before a stopPoll whose data is still to be         *)
(* emitted), the state of the consumer's buffer (consumer: "idle" before   *)
(* the first read request, "ready" after a read request, "full" after a    *)
(* push that returned false) and the last handler that ran (event).        *)
(***************************************************************************)
\* Transfers that may still emit 'data' after stopPoll.
MaxInFlight == 1

\* Mutant: polling is started but never stopped.
setPolling_StartOnly(s, polling) ==
  IF polling = s.isPolling \/ ~polling THEN s
  ELSE [s EXCEPT !.isPolling = polling, !.inPollActive = polling, !.inFlight = 0]

\* _setPolling(polling)
setPolling(s, polling) ==
  IF polling = s.isPolling THEN s
  ELSE [s EXCEPT !.isPolling = polling, !.inPollActive = polling,
                 !.inFlight = IF polling THEN 0 ELSE MaxInFlight]

StreamUnchanged ==
  UNCHANGED <<isInitialized, initPc, dataHandlerQueue, reqs, ops, sent, wdone, devq, destroyPc,
              listening, streamErrors, faults, usbLog, attached, readBack, received, codec>>

\* _read(): the consumer asks for data (its buffer has room).
StreamRead ==
  /\ stream.state = "ok"
  /\ destroyPc = "none"
  /\ stream' = setPolling([stream EXCEPT !.consumer = "ready", !.event = "_read"], TRUE)
  /\ StreamUnchanged

\* inEndpoint 'data': the chunk is pushed to the consumer and polling is
\* set to what push returns, false when the consumer's buffer is full (and
\* for as long as the consumer has not asked for data again). The endpoint
\* emits data while it polls, and for a transfer still in flight when it
\* was stopped.
StreamData(full) ==
  /\ stream.state = "ok"
  /\ destroyPc = "none"
  /\ listening
  /\ stream.inPollActive \/ stream.inFlight > 0
  /\ LET pushed == stream.consumer = "ready" /\ ~full
     IN  stream' = setPolling([stream EXCEPT !.consumer = IF pushed THEN @ ELSE "full",
                                             !.inFlight = IF stream.inPollActive THEN @ ELSE @ - 1,
                                             !.event = "data"],
                              pushed)
  /\ StreamUnchanged

(***************************************************************************)
(* Teardown                                                                *)
(***************************************************************************)
\* Mutant: the listener does not look at the device of the event.
IsOwnDevice_Any(device) == TRUE

\* device == this._device
IsOwnDevice(device) == device = stream.device

\* usb.on('detach', device => ...): a device is removed from the bus. For
\* the device of this stream destroy() starts _destroy, which deasserts the
\* control line first; destroy() on a stream already destroyed does nothing.
Detach(device) ==
  /\ stream.state = "ok"
  /\ device \in attached
  /\ attached' = attached \ {device}
  /\ destroyPc' = IF IsOwnDevice(device) /\ destroyPc = "none" THEN "setLineState" ELSE destroyPc
  /\ UNCHANGED <<isInitialized, initPc, dataHandlerQueue, reqs, ops, sent, wdone, devq, listening,
                 streamErrors, faults, stream, usbLog, readBack, received, codec>>

\* The library call that the awaited step of _destroy is.
DestroyCall(pc) ==
  CASE pc = "setLineState" -> "setLineState(false)"
    [] pc = "stopPollIn" -> "in.stopPoll"
    [] pc = "stopPollControl" -> "control.stopPoll"
    [] pc = "releaseComm" -> "comm.release"
    [] pc = "releaseData" -> "data.release"

\* Mutant: both kernel drivers are attached whatever the constructor did.
Reattach_Always(s) ==
  <<UsbCall("comm.attachKernelDriver", TRUE), UsbCall("data.attachKernelDriver", TRUE)>>

\* The last step of _destroy: the kernel drivers the constructor detached
\* are attached again.
Reattach(s) ==
  (IF s.reattachCOMMDriver THEN <<UsbCall("comm.attachKernelDriver", TRUE)>> ELSE <<>>)
    \o (IF s.reattachDATADriver THEN <<UsbCall("data.attachKernelDriver", TRUE)>> ELSE <<>>)

\* The step of _destroy awaited completes and the next one starts; after the
\* release of the DATA interface the drivers are reattached and 'close' is
\* emitted.
DestroyStep ==
  /\ destroyPc \in {"setLineState", "stopPollIn", "stopPollControl", "releaseComm", "releaseData"}
  /\ destroyPc' = CASE destroyPc = "setLineState" -> "stopPollIn"
                    [] destroyPc = "stopPollIn" -> "stopPollControl"
                    [] destroyPc = "stopPollControl" -> "releaseComm"
                    [] destroyPc = "releaseComm" -> "releaseData"
                    [] destroyPc = "releaseData" -> "closed"
  /\ listening' = IF destroyPc = "stopPollControl" THEN FALSE ELSE listening
  /\ usbLog' = usbLog \o <<UsbCall(DestroyCall(destroyPc), TRUE)>>
                 \o (IF destroyPc = "releaseData" THEN Reattach(stream) ELSE <<>>)
  /\ stream' = IF destroyPc = "stopPollIn" THEN [stream EXCEPT !.inPollActive = FALSE] ELSE stream
  /\ UNCHANGED <<isInitialized, initPc, dataHandlerQueue, reqs, ops, sent, wdone, devq, streamErrors,
                 faults, attached, readBack, received, codec>>

\* The step of _destroy awaited fails (the control transfer or the release
\* reports an error, stopPoll throws): .catch(err => callback(err)).
DestroyFails ==
  /\ destroyPc \in {"setLineState", "stopPollIn", "stopPollControl", "releaseComm", "releaseData"}
  /\ destroyPc' = "failed"
  /\ usbLog' = Append(usbLog, UsbCall(DestroyCall(destroyPc), FALSE))
  /\ UNCHANGED <<isInitialized, initPc, dataHandlerQueue, reqs, ops, sent, wdone, devq, listening,
                 streamErrors, faults, stream, attached, readBack, received, codec>>

(***************************************************************************)
(* Registers: the encoders and decoders of the register definitions. The   *)
(* argument of a function is a tuple of numbers (codec.raw), its outcome   *)
(* the byte buffer or value returned, or the error thrown (codec.out).     *)
(* Every encoder ends in Buffer.from([x]), which keeps x modulo 256, and   *)
(* |, & and << commute with that reduction, so they are computed on the    *)
(* low eight bits.                                                         *)
(***************************************************************************)
\* The value Buffer.from([x]) stores for the number x.
ToUint8(x) == x % 256

RECURSIVE BitOr(_, _)
\* a | b on non-negative numbers
BitOr(a, b) ==
  IF a = 0 THEN b
  ELSE IF b = 0 THEN a
  ELSE (IF a % 2 = 1 \/ b % 2 = 1 THEN 1 ELSE 0) + 2 * BitOr(a \div 2, b \div 2)

\* enum PositionFilter
PositionFilter == [NONE |-> 0, FIR |-> 1, MOVING_AVERAGE |-> 3, MOVING_MEDIAN |-> 4]

Returned(data) == [ok |-> TRUE, data |-> data, err |-> ""]

Thrown(err) == [ok |-> FALSE, data |-> <<>>, err |-> err]

\* POS_FILTER.encode([filter, strength])
POS_FILTER_encode(data) ==
  LET filter == data[1]
      strength == data[2]
      bm == BitOr(ToUint8(filter) % 16, ((ToUint8(strength) % 16) * 16) % 256)
  IN  IF filter # 0 /\ filter # 1 /\ filter # 4 THEN Thrown("Invalid filter")
      ELSE IF strength < 0 \/ strength > 15 THEN Thrown("Invalid filter strength")
      ELSE Returned(<<ToUint8(bm)>>)

\* UWB_RATES.encode([bitrate, prf])
UWB_RATES_encode(data) ==
  LET bm == BitOr(ToUint8(data[1]), (ToUint8(data[2]) * 64) % 256)
  IN  Returned(<<ToUint8(bm)>>)

\* UWB_PLEN.encode(data)
UWB_PLEN_encode(data) ==
  IF data # 12 /\ data # 40 /\ data # 24 /\ data # 52 /\ data # 36 /\ data # 20 /\ data # 4
    THEN Thrown("Invalid preamble length")
  ELSE Returned(<<ToUint8(0)>>)

\* UWB_XTALTRIM.encode(data)
UWB_XTALTRIM_encode(data) ==
  IF data < 0 \/ data > 16 THEN Thrown("Invalid trimming value")
  ELSE Returned(<<ToUint8(data)>>)

\* HARDWARE_VERSION.decode(buf): [version, type == 0x0], the version in
\* tenths (12 for 1.2, 13 for 1.3).
HARDWARE_VERSION_decode(buf) ==
  LET data == buf[1]
      type == data \div 32
  IN  IF data % 32 # 2 /\ data % 32 # 3 THEN Thrown("Invalid hardware version")
      ELSE IF type # 0 /\ type # 1 THEN Thrown("Invalid hardware type")
      ELSE Returned(<<IF data % 32 = 2 THEN 12 ELSE 13, type = 0>>)

\* Bit b of the non-negative number x.
Bit(x, b) == (x \div (2 ^ b)) % 2

\* x & ~(1 << b)
BitClear(x, b) == IF Bit(x, b) = 1 THEN x - 2 ^ b ELSE x

RECURSIVE maskFromArrayLoop(_, _, _)
\* for (let i = 0; i < arr.length; bm |= +arr[i] << i++): the elements are
\* "true", "false", "null" or "undefined" (a hole of the array included);
\* +true is 1, +false and +null are 0, +undefined is NaN and NaN << i is 0.
maskFromArrayLoop(arr, i, bm) ==
  IF i >= Len(arr) THEN bm
  ELSE maskFromArrayLoop(arr, i + 1, BitOr(bm, (IF arr[i + 1] = "true" THEN 1 ELSE 0) * 2 ^ i))

\* maskFromArray(arr), for the arrays of at most 32 elements
maskFromArray(arr) == maskFromArrayLoop(arr, 0, 0)

RECURSIVE ClearUnused(_, _, _)
\* for (let i = 0; i < params.length; i++) if (params[i] == null) bm &= ~(1 << i + 4)
ClearUnused(params, i, bm) ==
  IF i >= Len(params) THEN bm
  ELSE ClearUnused(params, i + 1,
                   IF params[i + 1] \in {"null", "undefined"} THEN BitClear(bm, i + 4) ELSE bm)

\* LED_CTRL.encode(params)
LED_CTRL_encode(params) ==
  Returned(<<ToUint8(ClearUnused(params, 0, BitOr(maskFromArray(params), 15 * 16)))>>)

\* The array LEDController.setState(led, on) builds: const states = [];
\* states[led - 1] = on.
setState(led, on) == [i \in 1..led |-> IF i = led THEN on ELSE "undefined"]

\* What a caller may put in the array of LED states.
LedStates == {"true", "false", "null", "undefined"}

\* The arguments each function is applied to: values inside and on both
\* sides of the ranges it accepts, and every byte for the decoder.
RegisterInputs ==
  ({"POS_FILTER.encode"} \X ((-1..5) \X (-1..17)))
    \cup ({"UWB_RATES.encode"} \X ((-1..3) \X (0..3)))
    \cup ({"UWB_PLEN.encode"} \X {<<x>> : x \in 0..63})
    \cup ({"UWB_XTALTRIM.encode"} \X {<<x>> : x \in -1..17})
    \cup ({"HARDWARE_VERSION.decode"} \X {<<b>> : b \in 0..255})
    \cup ({"LED_CTRL.encode"} \X UNION {[1..n -> LedStates] : n \in 0..4})
    \cup ({"LEDController.setState"} \X ((1..4) \X {"true", "false"}))

\* The function named in codec.fn is applied to codec.raw.
Apply(fn, out) ==
  /\ codec.stage = "arg"
  /\ codec.fn = fn
  /\ codec' = [codec EXCEPT !.stage = "done", !.out = out]
  /\ CodecUnchanged

PosFilterEncode == Apply("POS_FILTER.encode", POS_FILTER_encode(codec.raw))

UwbRatesEncode == Apply("UWB_RATES.encode", UWB_RATES_encode(codec.raw))

UwbPlenEncode == Apply("UWB_PLEN.encode", UWB_PLEN_encode(codec.raw[1]))

UwbXtaltrimEncode == Apply("UWB_XTALTRIM.encode", UWB_XTALTRIM_encode(codec.raw[1]))

HardwareVersionDecode == Apply("HARDWARE_VERSION.decode", HARDWARE_VERSION_decode(codec.raw))

LedCtrlEncode == Apply("LED_CTRL.encode", LED_CTRL_encode(codec.raw))

\* LEDController.setState(led, on), up to the parameters of the call
LedSetState ==
  Apply("LEDController.setState", LED_CTRL_encode(setState(codec.raw[1], codec.raw[2])))

(***************************************************************************)
(* Specification                                                           *)
(***************************************************************************)
\* A connection and its stream before any constructor has run.
InitFields ==
  /\ isInitialized = FALSE
  /\ initPc = "idle"
  /\ dataHandlerQueue = <<>>
  /\ reqs = <<>>
  /\ ops = <<>>
  /\ sent = <<>>
  /\ wdone = 0
  /\ devq = <<>>
  /\ destroyPc = "none"
  /\ streamErrors = 0
  /\ faults = 0
  /\ attached = UsbDevices
  /\ readBack = <<>>
  /\ received = <<>>
  /\ codec = NoCodec

\* new USBSerialConnection(device) on a Pozyx device on Linux: the stream
\* has been constructed.
Init ==
  /\ InitFields
  /\ stream = COMMUSBStream(OwnDevice, PozyxDevice, "linux").stream
  /\ usbLog = COMMUSBStream(OwnDevice, PozyxDevice, "linux").log
  /\ listening = TRUE

\* The steps of a connection whose device stays attached.
Next ==
  \/ InitCall
  \/ InitTransferDone
  \/ InitTransferFails
  \/ \E coding \in LineCodings : InitReadBack(coding)
  \/ \E a \in ReadArgs : Read(a[1], a[2])
  \/ \E register \in WriteRegisters, n \in WriteLens : Write(register, Payload(n))
  \/ \E register \in CallRegisters, n \in ParamLens : Call(register, Payload(n), 1)
  \/ \E err \in BOOLEAN : TransferComplete(err)
  \/ DataArrives
  \/ BadDataArrives
  \/ InEndpointError

Spec == Init /\ [][Next]_vars

\* Reads and calls on a connection whose stream also emits chunks that
\* answer no frame.
NextStray ==
  \/ InitCall
  \/ InitTransferDone
  \/ InitReadBack(POZYX_LINE_CODING)
  \/ \E length \in {1, MAX_SERIAL_SIZE + 1} : Read(0, length)
  \/ \E register \in CallRegisters : Call(register, Payload(1), 1)
  \/ TransferComplete(FALSE)
  \/ DataArrives
  \/ \E chunk \in StrayChunks : StrayData(chunk)

SpecStray == Init /\ [][NextStray]_vars

\* The same with the detach of the device and the teardown it starts.
NextTeardown ==
  \/ Next
  \/ \E device \in UsbDevices : Detach(device)
  \/ DestroyStep
  \/ DestroyFails

SpecTeardown == Init /\ [][NextTeardown]_vars

\* The stream alone: its constructor on any of the devices, the detach
\* events and the teardown.
InitStream ==
  /\ InitFields
  /\ stream = NoStream
  /\ usbLog = <<>>
  /\ listening = FALSE

NextStream ==
  \/ \E descriptor \in Devices, platform \in Platforms : Construct(descriptor, platform)
  \/ StreamRead
  \/ \E full \in BOOLEAN : StreamData(full)
  \/ \E device \in UsbDevices : Detach(device)
  \/ DestroyStep
  \/ DestroyFails

SpecStream == InitStream /\ [][NextStream]_vars

\* The codec alone, applied to each of the byte sequences.
InitCodec ==
  /\ isInitialized = FALSE
  /\ initPc = "idle"
  /\ dataHandlerQueue = <<>>
  /\ reqs = <<>>
  /\ ops = <<>>
  /\ sent = <<>>
  /\ wdone = 0
  /\ devq = <<>>
  /\ destroyPc = "none"
  /\ streamErrors = 0
  /\ faults = 0
  /\ attached = UsbDevices
  /\ readBack = <<>>
  /\ received = <<>>
  /\ stream = NoStream
  /\ usbLog = <<>>
  /\ listening = FALSE
  /\ codec \in {[NoCodec EXCEPT !.stage = "raw", !.raw = B] : B \in ByteSeqs \cup FramePayloads}
               \cup {[NoCodec EXCEPT !.stage = "payload", !.hex = H] : H \in HexPayloads}

NextCodec ==
  \/ Encode
  \/ Decode
  \/ \E marker \in Markers, terminator \in Terminators : Frame(marker, terminator)
  \/ Parse
  \/ DecodePayload
  \/ \E register \in Addresses, length \in FrameLengths : ReadRequest(register, length)
  \/ \E register \in Addresses : WriteRequest(register)
  \/ \E register \in Addresses, length \in FrameLengths : CallRequest(register, length)

SpecCodec == InitCodec /\ [][NextCodec]_vars

\* The register functions alone, each applied to each of its arguments.
InitRegisters ==
  /\ isInitialized = FALSE
  /\ initPc = "idle"
  /\ dataHandlerQueue = <<>>
  /\ reqs = <<>>
  /\ ops = <<>>
  /\ sent = <<>>
  /\ wdone = 0
  /\ devq = <<>>
  /\ destroyPc = "none"
  /\ streamErrors = 0
  /\ faults = 0
  /\ attached = UsbDevices
  /\ readBack = <<>>
  /\ received = <<>>
  /\ stream = NoStream
  /\ usbLog = <<>>
  /\ listening = FALSE
  /\ codec \in {[NoCodec EXCEPT !.stage = "arg", !.fn = input[1], !.raw = input[2]] :
                  input \in RegisterInputs}

NextRegisters ==
  \/ PosFilterEncode
  \/ UwbRatesEncode
  \/ UwbPlenEncode
  \/ UwbXtaltrimEncode
  \/ HardwareVersionDecode
  \/ LedCtrlEncode
  \/ LedSetState

SpecRegisters == InitRegisters /\ [][NextRegisters]_vars

(***************************************************************************)
(* Properties                                                              *)
(***************************************************************************)
InQueue(h) == \E i \in 1..Len(dataHandlerQueue) : dataHandlerQueue[i] = h

Expecting(q) == reqs[q].kind \in {"R", "F"}

\* The operation was invoked after init() had completed successfully.
Ready(o) == ops[o].initAt = "resolved"

\* The entries of the write log that belong to operation o, in order.
FramesOf(o) == SelectSeq(sent, LAMBDA e : reqs[e.req].op = o)

ChunkedRead(o) == ops[o].kind = "read" /\ ops[o].length > MAX_SERIAL_SIZE

RECURSIVE SumLengths(_)
SumLengths(fr) == IF fr = <<>> THEN 0 ELSE reqs[Head(fr).req].length + SumLengths(Tail(fr))

\* A step in which an inbound chunk is delivered.
DataStep == devq # <<>> /\ devq' = Tail(devq)

\* C1: when an inbound chunk arrives while the queue is non-empty, the handler
\* removed and invoked is the earliest-submitted one still queued (leaf ids
\* grow in submission order), and nothing else leaves the queue; hence every
\* read or call that is fulfilled holds the bytes the device returned for its
\* own frame, never those returned for a sibling's.
C1_FifoCorrelation ==
  /\ [][(DataStep /\ dataHandlerQueue # <<>>) =>
          \E h \in 1..Len(reqs) :
            /\ InQueue(h)
            /\ \A i \in 1..Len(dataHandlerQueue) : h <= dataHandlerQueue[i]
            /\ dataHandlerQueue' = SelectSeq(dataHandlerQueue, LAMBDA g : g # h)
            /\ reqs[h].state = "pending"
            /\ reqs'[h].state # "pending"
            /\ \A g \in 1..Len(reqs) : g # h => reqs'[g] = reqs[g]]_vars
  /\ [](\A q \in 1..Len(reqs) :
          (Expecting(q) /\ reqs[q].state = "fulfilled") => reqs[q].value = DeviceData(q))

\* Two replies were delivered while a later request was still queued behind
\* them, and each went to its own request.
C1_Witness ==
  \E a, b, c \in 1..Len(reqs) :
    /\ a < b /\ b < c
    /\ reqs[a].state = "fulfilled" /\ reqs[a].length > 0
    /\ reqs[b].state = "fulfilled" /\ reqs[b].length > 0
    /\ reqs[a].value # reqs[b].value
    /\ InQueue(c)

\* The write callback of leaf q reports an error to a read or call.
TransferErrorStep(q) ==
  /\ wdone < Len(sent)
  /\ wdone' = wdone + 1
  /\ sent[wdone + 1].req = q
  /\ Expecting(q)
  /\ devq' = devq

\* C2: when the outbound transfer of a read or call reports an error, then in
\* the state in which its promise is rejected its handler is not in the queue
\* and the queue is the old queue without that handler: every other handler is
\* still there, in the same relative order.
C2_FailedTransferRemovesOwnHandler ==
  [][\A q \in 1..Len(reqs) :
       TransferErrorStep(q) =>
         /\ reqs'[q].state = "rejected"
         /\ ~(\E i \in 1..Len(dataHandlerQueue') : dataHandlerQueue'[i] = q)
         /\ dataHandlerQueue' = SelectSeq(dataHandlerQueue, LAMBDA g : g # q)]_vars

\* A transfer failed for a request that had an older and a newer handler
\* queued around it; both are still queued.
C2_Witness ==
  \E a, q, b \in 1..Len(reqs) :
    /\ a < q /\ q < b
    /\ Expecting(q) /\ reqs[q].state = "rejected" /\ reqs[q].err = "transfer error"
    /\ InQueue(a) /\ InQueue(b)
    /\ destroyPc = "none"

\* C3: once the teardown started by the detach of the device has finished and
\* no outbound transfer is outstanding, the pending queue is empty and no read
\* or call is still pending.
C3_TeardownDrainsQueue ==
  (destroyPc \in {"closed", "failed"} /\ wdone = Len(sent)) =>
    /\ dataHandlerQueue = <<>>
    /\ \A q \in 1..Len(reqs) : reqs[q].state # "pending"

\* C4: when the data-IN endpoint reports an error or a timeout while a read or
\* call whose frame reached the device awaits its reply, that request (the
\* oldest awaiting a reply) is rejected with the error.
C4_InboundErrorRejectsPending ==
  [][(streamErrors' = streamErrors + 1 /\ devq # <<>>) =>
       reqs'[Head(devq)].state = "rejected"]_vars

\* The handlers of operation o that are in the queue.
QueuedOf(o) == {i \in 1..Len(dataHandlerQueue) : reqs[dataHandlerQueue[i]].op = o}

InvokeStep == Len(ops') = Len(ops) + 1

C6_CeilChunks ==
  \A o \in 1..Len(ops) :
    (ChunkedRead(o) /\ Ready(o)) =>
      LET fr == FramesOf(o)
      IN  /\ Len(fr) = (ops[o].length + MAX_SERIAL_SIZE - 1) \div MAX_SERIAL_SIZE
          /\ \A i \in 1..Len(fr) :
               reqs[fr[i].req].register = ops[o].register + (i - 1) * MAX_SERIAL_SIZE
          /\ SumLengths(fr) = ops[o].length

\* The leaf request of operation o that reads from the given address.
KidAt(o, address) ==
  CHOOSE q \in {Kids(o)[i] : i \in 1..ops[o].n} : reqs[q].register = address

\* C7: a chunked read that is fulfilled yields the decoded payloads of its
\* chunks concatenated in ascending address order, and a chunked read one of
\* whose chunks is rejected is rejected.
C7_ConcatInAddressOrder ==
  \A o \in 1..Len(ops) :
    ChunkedRead(o) =>
      /\ OpState(o) = "fulfilled" =>
           OpValue(o) = Concat([i \in 1..ops[o].n |->
                                  reqs[KidAt(o, ops[o].register + (i - 1) * MAX_SERIAL_SIZE)].value])
      /\ (\E i \in 1..ops[o].n : reqs[Kids(o)[i]].state = "rejected") => OpState(o) = "rejected"

\* A read of 56 bytes was fulfilled from three chunks: two full ones with
\* different payloads and the empty one that follows them.
C7_Witness ==
  \E o \in 1..Len(ops) :
    /\ ChunkedRead(o)
    /\ OpState(o) = "fulfilled"
    /\ ops[o].n = 3
    /\ Len(OpValue(o)) = ops[o].length
    /\ Len(reqs[Kids(o)[1]].value) = MAX_SERIAL_SIZE
    /\ Len(reqs[Kids(o)[2]].value) = MAX_SERIAL_SIZE
    /\ reqs[Kids(o)[1]].value # reqs[Kids(o)[2]].value

\* C8: write returns for every payload length: no invocation of write ends
\* in unbounded recursion.
C8_WriteTerminates ==
  \A o \in 1..Len(ops) : ops[o].kind = "write" => ~ops[o].overflow

\* C9: a write of L <= 28 raw bytes on an initialized connection is sent as
\* one Write frame carrying the 2*L hex characters of the payload, and a
\* write of L > 28 raw bytes as ceil(L/28) frames, frame i carrying the raw
\* bytes [28*i, 28*(i+1)) hex-encoded once, for register + 28*i.
C9_WriteLimitIs28RawBytes ==
  \A o \in 1..Len(ops) :
    (ops[o].kind = "write" /\ Ready(o)) =>
      LET fr == FramesOf(o)
          L == ops[o].length
          raw(i) == Slice(ops[o].data, (i - 1) * MAX_SERIAL_SIZE, i * MAX_SERIAL_SIZE)
      IN  /\ Len(fr) = IF L <= MAX_SERIAL_SIZE THEN 1
                       ELSE (L + MAX_SERIAL_SIZE - 1) \div MAX_SERIAL_SIZE
          /\ \A i \in 1..Len(fr) :
               fr[i].buf = WriteFrame(ops[o].register + (i - 1) * MAX_SERIAL_SIZE,
                                      Concat([j \in 1..Len(raw(i)) |-> HexPair(raw(i)[j])]))

\* C10: an operation invoked before init() has completed successfully (not
\* yet called, still in progress, or failed) fails without touching the
\* transport: every promise it creates is rejected, none of its frames is
\* handed to the stream, none of its handlers is in the queue.
C10_NotInitializedTouchesNothing ==
  \A o \in 1..Len(ops) :
    ~Ready(o) =>
      /\ OpState(o) \in {"rejected", "thrown"}
      /\ \A i \in 1..ops[o].n : reqs[Kids(o)[i]].state = "rejected" /\ ~InQueue(Kids(o)[i])
      /\ FramesOf(o) = <<>>

\* A read or call and a write were each refused after init() had failed.
C10_Witness ==
  /\ initPc = "rejected"
  /\ \E o \in 1..Len(ops) : ops[o].initAt = "rejected" /\ ops[o].kind \in {"read", "call"}
                            /\ OpState(o) = "rejected"
  /\ \E o \in 1..Len(ops) : ops[o].initAt = "rejected" /\ ops[o].kind = "write"
                            /\ OpState(o) = "rejected"

\* The Call frame for raw parameters: 'F,' register ',' hex-pairs ',' length '\r'.
ExpectedCallFrame(register, params, length) ==
  <<70, 44>> \o HexPair(register) \o <<44>>
    \o Concat([j \in 1..Len(params) |-> HexPair(params[j])])
    \o <<44>> \o NumToString(length, 10) \o <<13>>

\* C11: a call with more than 14 raw parameter bytes is rejected, none of
\* its frames is handed to the stream and no handler of it is ever queued;
\* a call with at most 14 is never rejected for its length and, on an
\* initialized connection, is sent as exactly one Call frame that carries all
\* its parameters.
C11_CallParamCeiling ==
  \A o \in 1..Len(ops) :
    ops[o].kind = "call" =>
      /\ ops[o].n = 1
      /\ IF Len(ops[o].data) > MAX_PARAMS_SIZE
           THEN /\ OpState(o) = "rejected"
                /\ FramesOf(o) = <<>>
                /\ ~InQueue(Kids(o)[1])
         ELSE /\ reqs[Kids(o)[1]].err # "functions params cannot exceed 14 bytes in length"
              /\ Ready(o) =>
                   /\ Len(FramesOf(o)) = 1
                   /\ FramesOf(o)[1].buf = ExpectedCallFrame(ops[o].register, ops[o].data, ops[o].length)

\* On an initialized connection a call with 15 parameter bytes was refused
\* for its length and a call with 14 was sent.
C11_Witness ==
  \E a, b \in 1..Len(ops) :
    /\ ops[a].kind = "call" /\ Ready(a) /\ Len(ops[a].data) = MAX_PARAMS_SIZE + 1
    /\ reqs[Kids(a)[1]].err = "functions params cannot exceed 14 bytes in length"
    /\ ops[b].kind = "call" /\ Ready(b) /\ Len(ops[b].data) = MAX_PARAMS_SIZE
    /\ Len(FramesOf(b)) = 1

\* The library call was made and succeeded.
CalledOk(call) == \E i \in 1..Len(usbLog) : usbLog[i] = UsbCall(call, TRUE)

\* The interface ("comm" or "data") is claimed by the stream.
Claimed(iface) == CalledOk(iface \o ".claim") /\ ~CalledOk(iface \o ".release")

Ifaces == {"comm", "data"}

\* C12: when the teardown has finished, with or without an error, no
\* interface the constructor claimed is still claimed.
C12_TeardownReleasesAll ==
  destroyPc \in {"closed", "failed"} => \A iface \in Ifaces : ~Claimed(iface)

\* C13: a reattach of a kernel driver is only ever made after both the COMM
\* and the DATA interface have been released, and when a teardown has
\* succeeded the driver has been reattached (once) to exactly the interfaces
\* from which the constructor detached it.
C13_ReattachWhatWasDetached ==
  /\ \A i \in 1..Len(usbLog) :
       usbLog[i].call \in {iface \o ".attachKernelDriver" : iface \in Ifaces} =>
         \A iface \in Ifaces : \E j \in 1..(i - 1) : usbLog[j] = UsbCall(iface \o ".release", TRUE)
  /\ destroyPc = "closed" =>
       \A iface \in Ifaces :
         Cardinality({i \in 1..Len(usbLog) : usbLog[i].call = iface \o ".attachKernelDriver"})
           = Cardinality({i \in 1..Len(usbLog) : usbLog[i].call = iface \o ".detachKernelDriver"})

\* A teardown succeeded on a stream whose constructor had detached the
\* driver of the COMM interface only.
C13_Witness ==
  /\ destroyPc = "closed"
  /\ CalledOk("comm.detachKernelDriver") /\ CalledOk("comm.attachKernelDriver")
  /\ ~CalledOk("data.detachKernelDriver") /\ ~CalledOk("data.attachKernelDriver")

\* C14: a detach event for the device of the stream starts the teardown; a
\* detach event for another device changes neither the fields of the
\* stream, nor the calls made on the library (claims, polls), nor the
\* listeners, nor the state of the teardown.
C14_DetachOfOwnDeviceOnly ==
  [][\A device \in UsbDevices :
       (device \in attached /\ attached' = attached \ {device}) =>
         IF device = stream.device
           THEN destroyPc = "none" /\ destroyPc' = "setLineState"
         ELSE UNCHANGED <<stream, usbLog, listening, destroyPc>>]_vars

\* Another device has been removed from the bus while the stream holds its
\* interfaces, and the stream is as it was constructed.
C14_Witness ==
  /\ stream.state = "ok"
  /\ attached = {stream.device}
  /\ destroyPc = "none"
  /\ \A iface \in Ifaces : Claimed(iface)
  /\ listening

\* C15: init resolves, and the connection is initialized, only if the coding
\* read back equals the requested one in all four fields; when the coding
\* read back differs in a field init is rejected and the connection is not
\* initialized.
C15_InitChecksReadBack ==
  /\ (initPc = "resolved" \/ isInitialized) =>
       /\ readBack # <<>>
       /\ readBack[1].baudrate = POZYX_LINE_CODING.baudrate
       /\ readBack[1].stopbits = POZYX_LINE_CODING.stopbits
       /\ readBack[1].parity = POZYX_LINE_CODING.parity
       /\ readBack[1].databits = POZYX_LINE_CODING.databits
  /\ (readBack # <<>> /\ readBack[1] # POZYX_LINE_CODING) =>
       initPc = "rejected" /\ ~isInitialized

\* 115200 baud was requested and 9600 read back: init was rejected.
C15_Witness ==
  /\ readBack # <<>>
  /\ readBack[1].baudrate = 9600
  /\ initPc = "rejected"
  /\ ~isInitialized

ResolutionErrors ==
  {"Unable to find COMM interface", "Unable to find DATA interface",
   "Found invalid DATA interface", "Unable to find InEndpoint for the COMM interface"}

\* C16: on a device whose interfaces cannot be resolved or are not valid the
\* constructor throws the error of the failed check, and it has made no call
\* on the library: no kernel driver detached, no interface claimed, no poll
\* started.
C16_ThrowsBeforeTouchingDevice ==
  (stream.state # "none" /\ stream.descriptor \in UnresolvableDevices) =>
    /\ stream.state = "thrown"
    /\ stream.error \in ResolutionErrors
    /\ usbLog = <<>>

\* The constructor threw on a device without Union descriptor, on a platform
\* and with kernel drivers for which it would otherwise have detached them.
C16_Witness ==
  /\ stream.state = "thrown"
  /\ stream.error = "Unable to find DATA interface"
  /\ stream.platform = "linux"
  /\ stream.descriptor.interfaces[1].kernelDriverActive
  /\ stream.descriptor.interfaces[1].extra = <<5, 36, 0, 16, 1, 4, 36, 2, 2>>

\* C17: when the constructor has succeeded, the DATA interface has class
\* 0x0A and exactly two endpoints, both bulk, of different directions; the
\* data-IN endpoint of the stream is the one of direction 'in' and the
\* data-OUT endpoint the other one.
C17_DataEndpointsByDirection ==
  stream.state = "ok" =>
    LET dataIface == stream.descriptor.interfaces[stream.dataIface + 1]
        e == dataIface.endpoints
    IN  /\ dataIface.bInterfaceClass = 10
        /\ Len(e) = 2
        /\ \A i \in 1..2 : e[i].transferType = LIBUSB_TRANSFER_TYPE_BULK
        /\ {e[1].direction, e[2].direction} = {"in", "out"}
        /\ e[stream.inEndpoint + 1].direction = "in"
        /\ e[stream.outEndpoint + 1].direction = "out"

\* The constructor succeeded on a device that lists the OUT endpoint first.
C17_Witness ==
  /\ stream.state = "ok"
  /\ stream.descriptor.interfaces[stream.dataIface + 1].endpoints[1].direction = "out"
  /\ stream.inEndpoint = 1
  /\ stream.outEndpoint = 0

\* A step in which the stream emits a chunk that does not start with 'D'
\* while a handler is queued.
BadChunkStep ==
  /\ Len(received') = Len(received) + 1
  /\ received'[Len(received')].chunk[1] # 68
  /\ dataHandlerQueue # <<>>

\* C18: a chunk whose first byte is not 0x44 takes exactly one handler from
\* the queue, that of the oldest pending request, and rejects that request
\* with the malformed-frame error; no other request changes. The request it
\* was delivered to is rejected with that error and has no payload from then
\* on, and so is the read or call it belongs to.
C18_BadMarkerRejectsOneRequest ==
  /\ [][BadChunkStep =>
          LET h == received'[Len(received')].to
          IN  /\ h = dataHandlerQueue[Len(dataHandlerQueue)]
              /\ reqs[h].state = "pending"
              /\ dataHandlerQueue' = SubSeq(dataHandlerQueue, 1, Len(dataHandlerQueue) - 1)
              /\ \A g \in 1..Len(reqs) : g # h => reqs'[g] = reqs[g]]_vars
  /\ [](\A i \in 1..Len(received) :
          (received[i].chunk[1] # 68 /\ received[i].to # 0) =>
            /\ reqs[received[i].to].state = "rejected"
            /\ reqs[received[i].to].err = "Malformed data message"
            /\ reqs[received[i].to].value = <<>>
            /\ OpState(reqs[received[i].to].op) = "rejected")

\* A chunk starting with 'E' was delivered to the oldest of two queued
\* requests; the other one is still queued and pending.
C18_Witness ==
  \E i \in 1..Len(received) :
    /\ received[i].chunk[1] = 69
    /\ received[i].to # 0
    /\ reqs[received[i].to].err = "Malformed data message"
    /\ \E g \in 1..Len(reqs) : g > received[i].to /\ InQueue(g) /\ reqs[g].state = "pending"

\* C19: a response that starts with 'D' and carries the hex pairs of the
\* bytes B, followed by '\r' or by nothing, is parsed to B: 'D,43\r' gives
\* [0x43] and 'D,01' gives [0x01].
C19_PayloadUpToTerminator ==
  /\ (codec.stage = "parsed" /\ codec.msg[1] = 68) =>
       /\ codec.out.ok
       /\ codec.out.data = codec.raw
  /\ parseData(<<68, 44, 52, 51, 13>>) = [ok |-> TRUE, data |-> <<67>>, err |-> ""]
  /\ parseData(<<68, 44, 48, 49>>) = [ok |-> TRUE, data |-> <<1>>, err |-> ""]

\* A response of several bytes without terminator was parsed.
C19_Witness ==
  /\ codec.stage = "parsed"
  /\ codec.msg[1] = 68
  /\ codec.msg[Len(codec.msg)] # 13
  /\ Len(codec.raw) = MaxCodecLen
  /\ codec.out.data = codec.raw

\* The sixteen lower-case hex digits.
LowerHex == <<48, 49, 50, 51, 52, 53, 54, 55, 56, 57, 97, 98, 99, 100, 101, 102>>

\* C20: the encoding of B has 2 * Len(B) characters, the two lower-case hex
\* digits of each byte, high digit first, in the order of the bytes; and
\* decoding the encoding of B gives B.
C20_HexRoundTrip ==
  /\ codec.stage \in {"hex", "decoded"} =>
       /\ Len(codec.hex) = 2 * Len(codec.raw)
       /\ \A i \in 1..Len(codec.raw) :
            /\ codec.hex[2 * i - 1] = LowerHex[codec.raw[i] \div 16 + 1]
            /\ codec.hex[2 * i] = LowerHex[(codec.raw[i] % 16) + 1]
  /\ codec.stage = "decoded" =>
       /\ codec.out.ok
       /\ codec.out.data = codec.raw

\* A sequence with a byte below 0x10 and a byte with letter digits went
\* through the round trip.
C20_Witness ==
  /\ codec.stage = "decoded"
  /\ Len(codec.raw) = MaxCodecLen
  /\ \E i, j \in 1..Len(codec.raw) : codec.raw[i] = 9 /\ codec.raw[j] = 171
  /\ codec.out.data = codec.raw

\* The two lower-case hex digits of a byte, high digit first.
HexDigits(b) == <<LowerHex[b \div 16 + 1], LowerHex[(b % 16) + 1]>>

\* The decimal digits of a number below 100.
Decimal(n) == IF n < 10 THEN <<48 + n>> ELSE <<48 + (n \div 10), 48 + (n % 10)>>

\* The frame the protocol asks for.
ExpectedFrame(fn, register, raw, length) ==
  LET hex == Concat([i \in 1..Len(raw) |-> HexDigits(raw[i])])
  IN  CASE fn = "read" -> <<82, 44>> \o HexDigits(register) \o <<44>> \o Decimal(length) \o <<13>>
        [] fn = "write" -> <<87, 44>> \o HexDigits(register) \o <<44>> \o hex \o <<13>>
        [] fn = "call" -> <<70, 44>> \o HexDigits(register) \o <<44>> \o hex \o <<44>>
                            \o Decimal(length) \o <<13>>

\* C21: for every address 0x00..0xff the frame of a read is 'R,' aa ','
\* decimal(length) '\r', that of a write 'W,' aa ',' hex(data) '\r' and that
\* of a call 'F,' aa ',' hex(params) ',' decimal(length) '\r', aa being the
\* two lower-case hex digits of the address; write(0x15, [0x2f]) gives
\* 'W,15,2f\r'.
C21_FrameFormat ==
  /\ codec.stage = "frame" =>
        codec.msg = ExpectedFrame(codec.fn, codec.register, codec.raw, codec.length)
  /\ (codec.stage = "frame" /\ codec.fn = "write" /\ codec.register = 21 /\ codec.raw = <<47>>) =>
        codec.msg = <<87, 44, 49, 53, 44, 50, 102, 13>>

\* write(0x15, [0x2f]) was framed.
C21_Witness ==
  /\ codec.stage = "frame"
  /\ codec.fn = "write"
  /\ codec.register = 21
  /\ codec.raw = <<47>>
  /\ codec.msg = <<87, 44, 49, 53, 44, 50, 102, 13>>

\* The value of a lower-case hex digit, -1 for any other character.
HexValue(c) ==
  IF \E d \in 1..16 : LowerHex[d] = c THEN (CHOOSE d \in 1..16 : LowerHex[d] = c) - 1 ELSE -1

\* C22: every frame carries, between the command letter and the next ',',
\* an address field of exactly two lower-case hex digits whose value is the
\* register the frame targets; chunk i of a chunked read targets
\* register + 28 * i.
C22_AddressFieldIsTargetRegister ==
  \A i \in 1..Len(sent) :
    LET buf == sent[i].buf
        q == sent[i].req
    IN  /\ HexValue(buf[3]) >= 0
        /\ HexValue(buf[4]) >= 0
        /\ buf[5] = 44
        /\ 16 * HexValue(buf[3]) + HexValue(buf[4]) = reqs[q].register
        /\ \A o \in 1..Len(ops) :
             (ops[o].kind = "read" /\ q >= ops[o].first /\ q < ops[o].first + ops[o].n) =>
               reqs[q].register = ops[o].register + MAX_SERIAL_SIZE * (q - ops[o].first)

\* C23: before teardown the data-IN endpoint polls only while the consumer
\* is ready for data; its polling is started by a read request of the
\* consumer, stopped by an inbound chunk whose push reports a full buffer,
\* and changed by nothing else.
C23_PolledOnlyWhileConsumerReady ==
  /\ [][(destroyPc' = "none" /\ stream.state = "ok"
          /\ stream'.inPollActive # stream.inPollActive) =>
           \/ /\ stream'.inPollActive
              /\ stream'.event = "_read"
              /\ stream'.consumer = "ready"
           \/ /\ ~stream'.inPollActive
              /\ stream'.event = "data"
              /\ stream'.consumer = "full"]_vars
  /\ [](destroyPc = "none" =>
          /\ stream.inPollActive => stream.consumer = "ready"
          /\ stream.consumer = "full" => ~stream.inPollActive)

\* Polling was started by a read request and stopped again by a chunk that
\* filled the consumer's buffer.
C23_Witness ==
  /\ destroyPc = "none"
  /\ stream.state = "ok"
  /\ stream.event = "data"
  /\ stream.consumer = "full"
  /\ ~stream.inPollActive
  /\ ~stream.isPolling

\* The write callback of the frame of write leaf q runs.
WriteTransferStep(q) ==
  /\ wdone < Len(sent)
  /\ wdone' = wdone + 1
  /\ sent[wdone + 1].req = q
  /\ reqs[q].kind = "W"

\* C24: a write puts no handler in the queue and takes none out: the queue
\* is the same after the invocation of a write as before, and the same after
\* the completion of its transfer, failed or not; the promise of a write is
\* settled by the completion of its own transfer (rejected if it failed,
\* fulfilled if not) and by no inbound chunk.
C24_WriteLeavesQueueAlone ==
  /\ [][(InvokeStep /\ ops'[Len(ops')].kind = "write") =>
          dataHandlerQueue' = dataHandlerQueue]_vars
  /\ [][\A q \in 1..Len(reqs) :
          /\ WriteTransferStep(q) =>
               /\ dataHandlerQueue' = dataHandlerQueue
               /\ reqs[q].state = "pending"
               /\ reqs'[q].state \in {"fulfilled", "rejected"}
               /\ reqs'[q].state = "rejected" <=> faults' # faults
          /\ (reqs[q].kind = "W" /\ reqs'[q] # reqs[q]) => WriteTransferStep(q)
          /\ (reqs[q].kind = "W" /\ DataStep) => reqs'[q] = reqs[q]]_vars
  /\ [](\A q \in 1..Len(reqs) : reqs[q].kind = "W" => ~InQueue(q))

\* A write made while a read was waiting for its reply was rejected by its
\* transfer; the handler of the read is still the only one queued.
C24_Witness ==
  \E r, w \in 1..Len(reqs) :
    /\ r < w
    /\ reqs[r].kind = "R" /\ reqs[r].state = "pending"
    /\ reqs[w].kind = "W" /\ reqs[w].state = "rejected" /\ reqs[w].err = "transfer error"
    /\ dataHandlerQueue = <<r>>

\* The frame of request q is with the stream or the device: its transfer
\* has not completed yet, or it completed and the device has not answered.
Outstanding(q) ==
  \/ \E i \in (wdone + 1)..Len(sent) : sent[i].req = q
  \/ \E i \in 1..Len(devq) : devq[i] = q

\* C30: the handler of a read or call is in the queue from the moment its
\* frame is submitted: in every state in which the frame has been submitted
\* and its transfer has neither failed nor been answered, the handler is
\* queued and the request is pending; and every pending read or call has
\* its handler queued.
C30_HandlerQueuedWhileOutstanding ==
  \A q \in 1..Len(reqs) :
    Expecting(q) =>
      /\ Outstanding(q) => (InQueue(q) /\ reqs[q].state = "pending")
      /\ reqs[q].state = "pending" => InQueue(q)

\* A read whose frame reached the device and a call whose transfer has not
\* completed yet both have their handlers queued.
C30_Witness ==
  \E r, f \in 1..Len(reqs) :
    /\ reqs[r].kind = "R" /\ reqs[f].kind = "F"
    /\ \E i \in 1..Len(devq) : devq[i] = r
    /\ \E i \in (wdone + 1)..Len(sent) : sent[i].req = f
    /\ InQueue(r) /\ InQueue(f)

\* The function fn has been applied to codec.raw.
Applied(fn) == codec.stage = "done" /\ codec.fn = fn

\* C25: POS_FILTER.encode accepts the filters NONE, FIR, MOVING_AVERAGE and
\* MOVING_MEDIAN with a strength of 0..15 and returns one byte with the
\* filter in bits 0-3 and the strength in bits 4-7; it throws for any other
\* filter and for a strength outside 0..15.
C25_PosFilterEncode ==
  Applied("POS_FILTER.encode") =>
    LET filter == codec.raw[1]
        strength == codec.raw[2]
    IN  IF filter \in {0, 1, 3, 4} /\ strength \in 0..15
          THEN codec.out.ok /\ codec.out.data = <<filter + 16 * strength>>
        ELSE ~codec.out.ok

\* C26: UWB_PLEN.encode(x) returns the one byte x for x in {0x0c, 0x28,
\* 0x18, 0x08, 0x34, 0x24, 0x14, 0x04} and throws for any other value.
C26_UwbPlenEncode ==
  Applied("UWB_PLEN.encode") =>
    LET x == codec.raw[1]
    IN  IF x \in {12, 40, 24, 8, 52, 36, 20, 4}
          THEN codec.out.ok /\ codec.out.data = <<x>>
        ELSE ~codec.out.ok

\* C27: UWB_RATES.encode([bitrate, prf]) throws unless bitrate is 0, 1 or 2
\* and prf is 1 or 2; for a valid pair it returns one byte with the bitrate
\* in bits 0-5 and the prf in bits 6-7.
C27_UwbRatesEncode ==
  Applied("UWB_RATES.encode") =>
    LET bitrate == codec.raw[1]
        prf == codec.raw[2]
    IN  IF bitrate \in {0, 1, 2} /\ prf \in {1, 2}
          THEN codec.out.ok /\ codec.out.data = <<bitrate + 64 * prf>>
        ELSE ~codec.out.ok

\* C28: UWB_XTALTRIM.encode accepts exactly the values 0..15: it throws for
\* a value below 0 and for a value above 15, 16 in particular.
C28_UwbXtaltrimEncode ==
  Applied("UWB_XTALTRIM.encode") =>
    LET x == codec.raw[1]
    IN  IF x \in 0..15 THEN codec.out.ok /\ codec.out.data = <<x>>
        ELSE ~codec.out.ok

\* C29: HARDWARE_VERSION.decode returns [version, isShield] for the bytes
\* 0xff, 0x02, 0x03, 1 << 5 and 0 << 5 without throwing; the version is 1.2
\* when bits 4..0 are 0x2 and 1.3 when they are 0x3, and the second element
\* is true when the type bits 7..5 are 1 and false when they are 0.
C29_HardwareVersionDecode ==
  Applied("HARDWARE_VERSION.decode") =>
    LET b == codec.raw[1]
    IN  /\ b \in {255, 2, 3, 32, 0} => codec.out.ok
        /\ codec.out.ok =>
             /\ Len(codec.out.data) = 2
             /\ b % 32 = 2 => codec.out.data[1] = 12
             /\ b % 32 = 3 => codec.out.data[1] = 13
             /\ b \div 32 = 1 => codec.out.data[2] = TRUE
             /\ b \div 32 = 0 => codec.out.data[2] = FALSE

\* The frame of request q has been handed to the stream.
Submitted(q) == \E i \in 1..Len(sent) : sent[i].req = q

\* The write callback of request q has reported an error.
TransferFailed(q) ==
  /\ \E i \in 1..wdone : sent[i].req = q
  /\ reqs[q].state = "rejected"
  /\ reqs[q].err = "transfer error"

\* An inbound chunk has been handed to the handler of request q.
Handed(q) == \E i \in 1..Len(received) : received[i].to = q

\* C31: the queue holds exactly the handlers of the reads and calls whose
\* frame has been submitted, whose transfer has not been reported failed and
\* which have not been handed a chunk yet; each of them once, in submission
\* order (the newest first in the array, so that pop takes the oldest); no
\* request is handed more than one chunk.
C31_QueueIsOutstandingRequests ==
  /\ \A q \in 1..Len(reqs) :
       InQueue(q) <=> (Expecting(q) /\ Submitted(q) /\ ~TransferFailed(q) /\ ~Handed(q))
  /\ \A i \in 1..Len(dataHandlerQueue) : dataHandlerQueue[i] \in 1..Len(reqs)
  /\ \A i, j \in 1..Len(dataHandlerQueue) : i < j => dataHandlerQueue[i] > dataHandlerQueue[j]
  /\ \A i, j \in 1..Len(received) :
       (i # j /\ received[i].to # 0) => received[i].to # received[j].to

\* Of three requests submitted, the first was handed its chunk and the
\* transfer of the second failed: the queue holds the third alone.
C31_Witness ==
  \E a, b, c \in 1..Len(reqs) :
    /\ a < b /\ b < c
    /\ Expecting(a) /\ Expecting(b) /\ Expecting(c)
    /\ Handed(a)
    /\ TransferFailed(b)
    /\ dataHandlerQueue = <<c>>

\* The control transfers issued so far, in order.
ControlTransfers == SelectSeq(usbLog, LAMBDA e : e.call = "controlTransfer")

\* C32: init issues SET_LINE_CODING with a payload of 7 bytes, then
\* SET_CONTROL_LINE_STATE with value 3 and an empty payload, then
\* GET_LINE_CODING, each only once the one before it has completed without
\* error; when one fails it is the last one issued and init is rejected.
C32_InitTransfersInOrder ==
  LET t == ControlTransfers
  IN  /\ Len(t) <= 3
      /\ Len(t) >= 1 => (t[1].request = "SET_LINE_CODING" /\ Len(t[1].data) = 7)
      /\ Len(t) >= 2 =>
           (t[2].request = "SET_CONTROL_LINE_STATE" /\ t[2].value = 3 /\ t[2].data = <<>>)
      /\ Len(t) >= 3 => t[3].request = "GET_LINE_CODING"
      /\ \A i \in 1..(Len(t) - 1) : t[i].state = "done"
      /\ \A i \in 1..Len(t) : t[i].state = "failed" => initPc = "rejected"
      /\ initPc = "resolved" => (Len(t) = 3 /\ t[3].state = "done")
      /\ initPc = "idle" <=> t = <<>>

\* SET_CONTROL_LINE_STATE failed after SET_LINE_CODING had completed: no
\* GET_LINE_CODING was issued and init is rejected.
C32_Witness ==
  /\ initPc = "rejected"
  /\ Len(ControlTransfers) = 2
  /\ ControlTransfers[1].state = "done"
  /\ ControlTransfers[2].state = "failed"
  /\ ControlTransfers[2].value = 3

\* Operation o is a read, made on an initialized connection, of a whole
\* number of frames, more than one.
WholeFramesRead(o) ==
  /\ ops[o].kind = "read"
  /\ Ready(o)
  /\ ops[o].length > MAX_SERIAL_SIZE
  /\ ops[o].length % MAX_SERIAL_SIZE = 0

\* The last request operation o created.
LastKid(o) == ops[o].first + ops[o].n - 1

\* C33: a read of more than 28 bytes whose length is a multiple of 28 ends
\* with a request of length 0 at address register + length: its frame
\* 'R,aa,0\r' is the last one the read submits, and its handler is queued
\* with those of the other chunks.
C33_ZeroLengthFinalChunk ==
  /\ [](\A o \in 1..Len(ops) :
          WholeFramesRead(o) =>
            LET q == LastKid(o)
                frames == FramesOf(o)
            IN  /\ ops[o].n = ops[o].length \div MAX_SERIAL_SIZE + 1
                /\ reqs[q].kind = "R"
                /\ reqs[q].length = 0
                /\ reqs[q].register = ops[o].register + ops[o].length
                /\ Len(frames) = ops[o].n
                /\ frames[Len(frames)].req = q
                /\ frames[Len(frames)].buf
                     = <<82, 44>> \o HexDigits(reqs[q].register) \o <<44, 48, 13>>)
  /\ [][(InvokeStep /\ ops'[Len(ops')].kind = "read" /\ ops'[Len(ops')].initAt = "resolved"
          /\ ops'[Len(ops')].length > MAX_SERIAL_SIZE
          /\ ops'[Len(ops')].length % MAX_SERIAL_SIZE = 0) =>
           LET o == Len(ops')
               q == ops'[o].first + ops'[o].n - 1
           IN  /\ dataHandlerQueue'[1] = q
               /\ \A k \in ops'[o].first..q :
                    \E i \in 1..Len(dataHandlerQueue') : dataHandlerQueue'[i] = k]_vars

\* read(0, 56) submitted 'R,38,0\r' as its third frame and the handler of
\* that request is queued.
C33_Witness ==
  \E o \in 1..Len(ops) :
    /\ WholeFramesRead(o)
    /\ ops[o].length = 2 * MAX_SERIAL_SIZE
    /\ ops[o].n = 3
    /\ reqs[LastKid(o)].length = 0
    /\ InQueue(LastKid(o))
    /\ \E i \in 1..Len(sent) :
         sent[i].req = LastKid(o) /\ sent[i].buf = <<82, 44, 51, 56, 44, 48, 13>>

RECURSIVE EntryStarts(_, _)
\* The offsets at which the entries of a length-prefixed descriptor chain
\* start, from offset p on; the chain ends at an entry of length 0.
EntryStarts(extra, p) ==
  IF p >= Len(extra) THEN {}
  ELSE {p} \cup (IF extra[p + 1] = 0 THEN {} ELSE EntryStarts(extra, p + extra[p + 1]))

\* The chain holds a Union descriptor of the COMM interface that names
\* interface n, and the device has an interface n of class DATA.
UnionNamesDataIface(device, comm, n) ==
  LET extra == Iface(device, comm).extra
  IN  /\ \E p \in EntryStarts(extra, 0) :
           /\ extra[p + 1] >= 5
           /\ At(extra, p + 1) = 36
           /\ At(extra, p + 2) = 6
           /\ At(extra, p + 3) = Iface(device, comm).interfaceNumber
           /\ At(extra, p + 4) = n
      /\ n \in 0..(Len(device.interfaces) - 1)
      /\ Iface(device, n).bInterfaceClass = LIBUSB_CLASS_DATA

\* C34: the constructor takes interface n for the DATA interface only if
\* the functional descriptors of the COMM interface hold a Union descriptor
\* (length >= 5, type 0x24, subtype 0x06) whose first linked interface is
\* the COMM interface itself and whose next byte is n, and interface n
\* exists and is of class DATA; in every other case it throws 'Unable to
\* find DATA interface'.
C34_DataIfaceFromUnionDescriptor ==
  (stream.state # "none" /\ stream.commIface # -1) =>
    /\ stream.dataIface # -1 =>
         UnionNamesDataIface(stream.descriptor, stream.commIface, stream.dataIface)
    /\ (~\E n \in 0..255 : UnionNamesDataIface(stream.descriptor, stream.commIface, n)) =>
         (stream.state = "thrown" /\ stream.error = "Unable to find DATA interface")

\* C37: the walk over the functional descriptors in getDATAIface ends for
\* every sequence of descriptor bytes, also for one with an entry of length
\* 0 and for one whose last entry runs past the end: the constructor never
\* stays in the loop.
C37_DescriptorWalkTerminates ==
  stream.state # "none" => stream.state \in {"ok", "thrown"}

\* The kernel driver of the interface was detached by the stream and has
\* not been attached again.
DriverDetached(iface) ==
  CalledOk(iface \o ".detachKernelDriver") /\ ~CalledOk(iface \o ".attachKernelDriver")

\* C38: when the constructor throws, also when it is the claim of the COMM
\* or of the DATA interface that fails after kernel drivers were detached,
\* no kernel driver it detached is left detached and no interface is left
\* claimed.
C38_ThrowingConstructorCleansUp ==
  stream.state = "thrown" =>
    \A iface \in Ifaces : ~DriverDetached(iface) /\ ~Claimed(iface)

\* '0'..'9', 'a'..'f', 'A'..'F'
HexChars == (48..57) \cup (97..102) \cup (65..70)

\* C39: decoding a response payload fails with 'Invalid hex character'
\* whenever one of its characters is outside 0-9, a-f, A-F: no payload with
\* such a character ('g'..'z' for instance) is decoded to bytes.
C39_InvalidHexCharacterRejected ==
  (codec.stage = "payloadDecoded" /\ \E i \in 1..Len(codec.hex) : codec.hex[i] \notin HexChars) =>
    (~codec.out.ok /\ codec.out.err = "Invalid hex character")

\* C40: in the byte LED_CTRL.encode returns, the USE bit of LED i (bit
\* 4 + i) is set exactly when params[i] is a boolean, and clear when it is
\* null, undefined or beyond the end of the array, the LED bit i being set
\* when params[i] is true; so the byte of LEDController.setState(led, on)
\* has the USE bit of that led and no other.
C40_LedCtrlUseBits ==
  /\ Applied("LED_CTRL.encode") =>
       /\ codec.out.ok
       /\ \A i \in 0..3 :
            /\ Bit(codec.out.data[1], 4 + i) = 1
                 <=> (i < Len(codec.raw) /\ codec.raw[i + 1] \in {"true", "false"})
            /\ Bit(codec.out.data[1], i) = 1
                 <=> (i < Len(codec.raw) /\ codec.raw[i + 1] = "true")
  /\ Applied("LEDController.setState") =>
       /\ codec.out.ok
       /\ \A i \in 0..3 : Bit(codec.out.data[1], 4 + i) = 1 <=> i = codec.raw[1] - 1
       /\ \A i \in 0..3 :
            Bit(codec.out.data[1], i) = 1 <=> (i = codec.raw[1] - 1 /\ codec.raw[2] = "true")

\* C35: _isPolling equals the polling state of the data-IN endpoint in
\* every state of the stream, teardown included, and the endpoint is asked
\* to start polling only while it does not poll and to stop polling, by
\* _setPolling or by _destroy, only while it polls.
C35_PollingFlagIsEndpointState ==
  /\ [](stream.state = "ok" => stream.isPolling = stream.inPollActive)
  /\ [][/\ (stream'.isPolling /\ ~stream.isPolling) => ~stream.inPollActive
        /\ (~stream'.isPolling /\ stream.isPolling) => stream.inPollActive
        /\ (destroyPc = "stopPollIn" /\ destroyPc' # destroyPc) => stream.inPollActive]_vars

\* A step in which the stream emits a 'data' chunk.
ChunkArrives == Len(received') = Len(received) + 1

\* C36: a chunk that arrives while the handler queue is empty is discarded:
\* the queue stays empty and no request is settled by it. The chunks that
\* arrived are never handed out again, a chunk goes only to a request that
\* was submitted before it arrived, and the value of a fulfilled read or
\* call is the data of the chunk handed to it, so a discarded chunk never
\* reaches a request submitted after it.
C36_ChunkWithoutHandlerDiscarded ==
  /\ [][(ChunkArrives /\ dataHandlerQueue = <<>>) =>
          /\ dataHandlerQueue' = <<>>
          /\ reqs' = reqs
          /\ received'[Len(received')].to = 0]_vars
  /\ [][/\ Len(received') >= Len(received)
        /\ SubSeq(received', 1, Len(received)) = received
        /\ ChunkArrives => received'[Len(received')].to <= Len(reqs)]_vars
  /\ [](\A q \in 1..Len(reqs) :
          (reqs[q].kind # "W" /\ reqs[q].state = "fulfilled") =>
            \E i \in 1..Len(received) :
              /\ received[i].to = q
              /\ parseData(received[i].chunk).ok
              /\ parseData(received[i].chunk).data = reqs[q].value)

\* The first chunk found the queue empty; a request submitted after it has
\* been fulfilled by its own reply, with data other than the first chunk's.
C36_Witness ==
  /\ Len(received) >= 2
  /\ received[1].to = 0
  /\ parseData(received[1].chunk).ok
  /\ \E i \in 2..Len(received) :
       /\ received[i].to # 0
       /\ reqs[received[i].to].state = "fulfilled"
       /\ reqs[received[i].to].value # parseData(received[1].chunk).data

====
